---- MODULE Spec2Model ----
(***************************************************************************)
(* Model of the service-catalog API layer that guards ServiceInstance and  *)
(* ServiceInstanceCredential resources:                                    *)
(*   - the BlockConcurrentUpdates admission plug-in (Admit),               *)
(*   - the instance REST strategies (PrepareForCreate, PrepareForUpdate,   *)
(*     the status strategy, CheckGracefulDelete),                          *)
(*   - the instance and credential validators.                             *)
(* Go pointers are modelled as sequences of length 0 (nil) or 1.           *)
(***************************************************************************)
EXTENDS Integers, Sequences, FiniteSets, TLC

VARIABLES
    instanceSynced,       \* instanceInformer.Informer().HasSynced()
    credentialSynced,     \* instanceCredentialInformer.Informer().HasSynced()
    originatingIdentity,  \* feature gate scfeatures.OriginatingIdentity
    stored,               \* the persisted ServiceInstance, Nil before its creation
    result,               \* outcome of the last request handled
    resourceVersion,      \* metadata.resourceVersion of the persisted ServiceInstance
    held                  \* what each concurrent client last read, Nil if nothing

vars == <<instanceSynced, credentialSynced, originatingIdentity, stored, result,
          resourceVersion, held>>

----------------------------------------------------------------------------
\* Bounds of the model.

\* Largest resourceVersion a write of the concurrent clients may reach.
MaxResourceVersion == 6

\* Largest Generation / ReconciledGeneration a request may carry or a write may reach.
MaxGen == 2

Generations == 0..MaxGen

\* Wall-clock readings (metav1.Now()). The code stores and copies times and never
\* compares or computes with them, so two readings, an earlier and a later one,
\* tell every behaviour apart.
Times == { 1, 2 }

----------------------------------------------------------------------------
\* Go pointers.

Nil == <<>>
Some(x) == <<x>>
Deref(p) == p[1]

----------------------------------------------------------------------------
\* API objects.

GroupName == "servicecatalog.k8s.io"
FinalizerServiceCatalog == "kubernetes-incubator/service-catalog"

ConditionReady == "Ready"

OperationProvision == "Provision"
OperationUpdate == "Update"
OperationDeprovision == "Deprovision"
OperationBind == "Bind"
OperationUnbind == "Unbind"

\* sc.ServiceInstanceStatus{} : the zero value, with Conditions = []
ZeroInstanceStatus ==
    [ ReconciledGeneration |-> 0,
      CurrentOperation     |-> "",
      OperationStartTime   |-> Nil,
      AsyncOpInProgress    |-> FALSE,
      LastOperation        |-> Nil,
      InProgressProperties |-> Nil,
      ExternalProperties   |-> Nil,
      Conditions           |-> <<>> ]

\* sc.ServiceInstanceCredentialStatus{}
ZeroCredentialStatus ==
    [ ReconciledGeneration |-> 0,
      CurrentOperation     |-> "",
      OperationStartTime   |-> Nil,
      InProgressProperties |-> Nil,
      ExternalProperties   |-> Nil,
      Conditions           |-> <<>> ]

\* validServiceInstance() of the validator's tests, as a record.
TestInstance ==
    [ kind              |-> "ServiceInstance",
      Namespace         |-> "test-ns",
      Name              |-> "test-instance",
      Generation        |-> 0,
      DeletionTimestamp |-> Nil,
      Finalizers        |-> <<>>,
      Spec   |-> [ ServiceClassName |-> "test-serviceclass",
                   PlanName         |-> "test-plan",
                   Parameters       |-> Nil,
                   ParametersFrom   |-> <<>>,
                   UserInfo         |-> Nil ],
      Status |-> ZeroInstanceStatus ]

TestCredential ==
    [ kind              |-> "ServiceInstanceCredential",
      Namespace         |-> "test-ns",
      Name              |-> "test-credential",
      Generation        |-> 0,
      DeletionTimestamp |-> Nil,
      Finalizers        |-> <<>>,
      Spec   |-> [ ServiceInstanceRef |-> [ Name |-> "test-instance" ],
                   SecretName         |-> "test-secret" ],
      Status |-> ZeroCredentialStatus ]

\* An object of a kind the plug-in does not manage.
OtherObject == [ kind |-> "ServiceBroker" ]

----------------------------------------------------------------------------
\* The admission plug-in.

AdmitDecision(kind, code, detail) == [ kind |-> kind, code |-> code, detail |-> detail ]

\* `return nil`
Allow == AdmitDecision("Allow", 0, "")

\* admission.NewForbidden(a, fmt.Errorf("not yet ready to handle request"))
NotReady == AdmitDecision("Forbidden", 403, "not yet ready to handle request")

\* apierrors.NewConflict(..., errors.New("pending change"))
PendingChange == AdmitDecision("Conflict", 409, "pending change")

\* The ready function installed by SetInternalServiceCatalogInformerFactory.
ReadyFunc == instanceSynced /\ credentialSynced

\* The instance test with the generation comparison left out.
InstanceHasPendingChangeNoGeneration(instance) ==
    instance.DeletionTimestamp # Nil

\* The instance test with the deletion timestamp left out, as for credentials.
InstanceHasPendingChangeNoDeletion(instance) ==
    instance.Status.ReconciledGeneration # instance.Generation

\* The test of line 79: the instance in the request has a pending change.
InstanceHasPendingChange(instance) ==
    \/ instance.DeletionTimestamp # Nil
    \/ instance.Status.ReconciledGeneration # instance.Generation

\* The credential's check with the deletion timestamp read as the instance's is.
CredentialHasPendingChangeOrDeletion(instanceCredential) ==
    \/ instanceCredential.DeletionTimestamp # Nil
    \/ instanceCredential.Status.ReconciledGeneration # instanceCredential.Generation

\* The test of line 89: credentials have no deletion check.
CredentialHasPendingChange(instanceCredential) ==
    instanceCredential.Status.ReconciledGeneration # instanceCredential.Generation

\* The branch for the resource serviceinstances.
AdmitInstance(a) ==
    IF a.Object.kind # "ServiceInstance"
    THEN AdmitDecision("BadRequest", 400,
             "Resource was marked with kind ServiceInstance but was unable to be converted")
    ELSE IF InstanceHasPendingChange(a.Object)
    THEN PendingChange
    ELSE Allow

\* The branch for the resource serviceinstancecredentials.
AdmitCredential(a) ==
    IF a.Object.kind # "ServiceInstanceCredential"
    THEN AdmitDecision("BadRequest", 400,
             "Resource was marked with kind ServiceInstanceCredential but was unable to be converted")
    ELSE IF CredentialHasPendingChange(a.Object)
    THEN PendingChange
    ELSE Allow

\* Admit with the status exemption taken before the readiness check.
AdmitStatusFirst(a, ready) ==
    IF a.Subresource = "status"
    THEN Allow
    ELSE IF ~ready
    THEN NotReady
    ELSE IF a.Group # GroupName
    THEN Allow
    ELSE IF a.Resource = "serviceinstances"
    THEN AdmitInstance(a)
    ELSE IF a.Resource = "serviceinstancecredentials"
    THEN AdmitCredential(a)
    ELSE Allow

\* Admit without the readiness check.
AdmitNoWait(a, ready) ==
    IF a.Group # GroupName
    THEN Allow
    ELSE IF a.Subresource = "status"
    THEN Allow
    ELSE IF a.Resource = "serviceinstances"
    THEN AdmitInstance(a)
    ELSE IF a.Resource = "serviceinstancecredentials"
    THEN AdmitCredential(a)
    ELSE Allow

\* Admit with the status exemption dropped.
AdmitNoStatusExemption(a, ready) ==
    IF ~ready
    THEN NotReady
    ELSE IF a.Group # GroupName
    THEN Allow
    ELSE IF a.Resource = "serviceinstances"
    THEN AdmitInstance(a)
    ELSE IF a.Resource = "serviceinstancecredentials"
    THEN AdmitCredential(a)
    ELSE Allow

\* Admit with the status exemption taken after the conversion of the object.
AdmitStatusAfterConversion(a, ready) ==
    IF ~ready
    THEN NotReady
    ELSE IF a.Group # GroupName
    THEN Allow
    ELSE LET decision == IF a.Resource = "serviceinstances"
                         THEN AdmitInstance(a)
                         ELSE IF a.Resource = "serviceinstancecredentials"
                         THEN AdmitCredential(a)
                         ELSE Allow
         IN  IF decision.kind # "BadRequest" /\ a.Subresource = "status"
             THEN Allow
             ELSE decision

\* Admit looking the instance up in the informer's cache, which holds the
\* stored object, before it decides on the object of the request.
AdmitConsultingLister(a, ready) ==
    IF ~ready
    THEN NotReady
    ELSE IF a.Group # GroupName
    THEN Allow
    ELSE IF a.Subresource = "status"
    THEN Allow
    ELSE IF a.Resource = "serviceinstances"
    THEN IF stored # Nil /\ InstanceHasPendingChange(Deref(stored))
         THEN PendingChange
         ELSE AdmitInstance(a)
    ELSE IF a.Resource = "serviceinstancecredentials"
    THEN AdmitCredential(a)
    ELSE Allow

\* Admit with the check of the API group left out.
AdmitAnyGroup(a, ready) ==
    IF ~ready
    THEN NotReady
    ELSE IF a.Subresource = "status"
    THEN Allow
    ELSE IF a.Resource = "serviceinstances"
    THEN AdmitInstance(a)
    ELSE IF a.Resource = "serviceinstancecredentials"
    THEN AdmitCredential(a)
    ELSE Allow

\* blockConcurrentUpdates.Admit; `ready` is what cu.WaitForReady() returned.
Admit(a, ready) ==
    IF ~ready
    THEN NotReady
    ELSE IF a.Group # GroupName
    THEN Allow
    ELSE IF a.Subresource = "status"
    THEN Allow
    ELSE IF a.Resource = "serviceinstances"
    THEN AdmitInstance(a)
    ELSE IF a.Resource = "serviceinstancecredentials"
    THEN AdmitCredential(a)
    ELSE Allow

\* admission.NewAttributesRecord for an update request.
Attributes(group, resource, subresource, object) ==
    [ Group |-> group, Resource |-> resource, Subresource |-> subresource, Object |-> object ]

----------------------------------------------------------------------------
\* Field errors (field.ErrorList is a sequence of them, in the order appended).
\* A field path is the sequence of its elements; an index is written as its digits.

FieldError(type, fld, detail) == [ type |-> type, field |-> fld, detail |-> detail ]

\* <<e>> when cond holds, else nothing: `if cond { allErrs = append(allErrs, e) }`.
ErrIf(cond, e) == IF cond THEN <<e>> ELSE <<>>

\* Names that satisfy the DNS-subdomain syntax, among the names requests carry.
WellFormedNames ==
    { "test-ns", "test-instance", "test-credential", "test-secret",
      "test-serviceclass", "test-plan", "test-plan-2" }

\* apivalidation.NameIsDNSSubdomain and the class / plan name checks: the messages
\* for a name; none when it is well formed.
NameMessages(name) ==
    IF name \in WellFormedNames THEN <<>> ELSE << "invalid name" >>

InvalidNameErrors(fld, name) ==
    IF NameMessages(name) = <<>>
    THEN <<>>
    ELSE << FieldError("Invalid", fld, NameMessages(name)[1]) >>

\* apivalidation.ValidateObjectMeta, for a namespaced object: name and namespace.
ValidateObjectMeta(meta) ==
    ( IF meta.Name = ""
      THEN << FieldError("Required", << "metadata", "name" >>, "name or generateName is required") >>
      ELSE InvalidNameErrors(<< "metadata", "name" >>, meta.Name) )
    \o
    ( IF meta.Namespace = ""
      THEN << FieldError("Required", << "metadata", "namespace" >>, "") >>
      ELSE InvalidNameErrors(<< "metadata", "namespace" >>, meta.Namespace) )

\* Raw parameter documents: the bytes of a runtime.RawExtension, by what a YAML
\* decoder into a map makes of them.
RawEmpty == ""
RawMap == "a: 1"
RawList == "- a"
RawBroken == "{"

\* yaml.Unmarshal(raw, &map) returns no error.
YamlUnmarshalsToMap(raw) == raw \in { RawEmpty, RawMap }

\* controller.UnmarshalRawParameters(raw) returns no error.
UnmarshalRawParametersOk(raw) == YamlUnmarshalsToMap(raw)

ParametersFromErrors(fldPath, paramsFrom) ==
    IF paramsFrom.SecretKeyRef # Nil
    THEN ErrIf(Deref(paramsFrom.SecretKeyRef).Name = "",
               FieldError("Required", fldPath \o << "parametersFrom", "secretKeyRef", "name" >>, "name is required"))
         \o
         ErrIf(Deref(paramsFrom.SecretKeyRef).Key = "",
               FieldError("Required", fldPath \o << "parametersFrom", "secretKeyRef", "key" >>, "key is required"))
    ELSE << FieldError("Required", fldPath \o << "parametersFrom" >>, "source must not be empty if present") >>

RECURSIVE AllParametersFromErrors(_, _)
AllParametersFromErrors(fldPath, list) ==
    IF list = <<>> THEN <<>>
    ELSE ParametersFromErrors(fldPath, Head(list)) \o AllParametersFromErrors(fldPath, Tail(list))

validateServiceInstanceSpec(spec, fldPath) ==
    ErrIf(spec.ServiceClassName = "",
          FieldError("Required", fldPath \o << "serviceClassName" >>, "serviceClassName is required"))
    \o InvalidNameErrors(fldPath \o << "serviceClassName" >>, spec.ServiceClassName)
    \o ErrIf(spec.PlanName = "",
             FieldError("Required", fldPath \o << "planName" >>, "planName is required"))
    \o InvalidNameErrors(fldPath \o << "planName" >>, spec.PlanName)
    \o AllParametersFromErrors(fldPath, spec.ParametersFrom)
    \o ( IF spec.Parameters # Nil
         THEN ErrIf(Deref(spec.Parameters).Raw = RawEmpty,
                    FieldError("Required", fldPath \o << "parameters" >>,
                               "inline parameters must not be empty if present"))
              \o
              ErrIf(~UnmarshalRawParametersOk(Deref(spec.Parameters).Raw),
                    FieldError("Required", fldPath \o << "parameters" >>, "invalid inline parameters"))
         ELSE <<>> )

\* The length a parameters checksum must have.
ChecksumLength == 64

HexDigits ==
    { "0", "1", "2", "3", "4", "5", "6", "7", "8", "9",
      "a", "b", "c", "d", "e", "f", "A", "B", "C", "D", "E", "F" }

\* stringIsHexadecimal: a checksum is a sequence of characters.
stringIsHexadecimal(s) == \A i \in 1..Len(s) : s[i] \in HexDigits

\* The validator of a properties state with the check of the length left out.
validatePropertiesStateOfAnyLength(propertiesState, fldPath) ==
    ( IF propertiesState.Parameters = Nil
      THEN ErrIf(propertiesState.ParametersChecksum # <<>>,
                 FieldError("Forbidden", fldPath \o << "parametersChecksum" >>,
                            "parametersChecksum must be empty when there are no parameters"))
      ELSE ( IF Deref(propertiesState.Parameters).Raw = RawEmpty
             THEN << FieldError("Required", fldPath \o << "parameters", "raw" >>, "raw must not be empty") >>
             ELSE ErrIf(~YamlUnmarshalsToMap(Deref(propertiesState.Parameters).Raw),
                        FieldError("Invalid", fldPath \o << "parameters", "raw" >>, "raw must be valid yaml")) )
           \o
           ErrIf(propertiesState.ParametersChecksum = <<>>,
                 FieldError("Forbidden", fldPath \o << "parametersChecksum" >>,
                            "parametersChecksum must not be empty when there are parameters")) )
    \o
    ErrIf(~stringIsHexadecimal(propertiesState.ParametersChecksum),
          FieldError("Invalid", fldPath \o << "parametersChecksum" >>,
                     "parametersChecksum must be a hexadecimal number"))

\* validateServiceInstancePropertiesState and its credential twin, which differ
\* in nothing but the type of the argument.
validatePropertiesState(propertiesState, fldPath) ==
    ( IF propertiesState.Parameters = Nil
      THEN ErrIf(propertiesState.ParametersChecksum # <<>>,
                 FieldError("Forbidden", fldPath \o << "parametersChecksum" >>,
                            "parametersChecksum must be empty when there are no parameters"))
      ELSE ( IF Deref(propertiesState.Parameters).Raw = RawEmpty
             THEN << FieldError("Required", fldPath \o << "parameters", "raw" >>, "raw must not be empty") >>
             ELSE ErrIf(~YamlUnmarshalsToMap(Deref(propertiesState.Parameters).Raw),
                        FieldError("Invalid", fldPath \o << "parameters", "raw" >>, "raw must be valid yaml")) )
           \o
           ErrIf(propertiesState.ParametersChecksum = <<>>,
                 FieldError("Forbidden", fldPath \o << "parametersChecksum" >>,
                            "parametersChecksum must not be empty when there are parameters")) )
    \o
    ( IF propertiesState.ParametersChecksum # <<>>
      THEN ErrIf(Len(propertiesState.ParametersChecksum) # ChecksumLength,
                 FieldError("Invalid", fldPath \o << "parametersChecksum" >>,
                            "parametersChecksum must be exactly 64 digits"))
           \o
           ErrIf(~stringIsHexadecimal(propertiesState.ParametersChecksum),
                 FieldError("Invalid", fldPath \o << "parametersChecksum" >>,
                            "parametersChecksum must be a hexadecimal number"))
      ELSE <<>> )

validateServiceInstancePropertiesState(propertiesState, fldPath) ==
    validatePropertiesState(propertiesState, fldPath)

validateServiceInstanceCredentialPropertiesState(propertiesState, fldPath) ==
    validatePropertiesState(propertiesState, fldPath)

validServiceInstanceOperations ==
    { "", OperationProvision, OperationUpdate, OperationDeprovision }

validServiceInstanceCredentialOperations ==
    { "", OperationBind, OperationUnbind }

\* The indexes of the conditions with status True, of whatever type.
ReadyTrueIndexesOfAnyType(conditions) ==
    SelectSeq([ i \in 1..Len(conditions) |-> i - 1 ],
              LAMBDA i : conditions[i + 1].Status = "True")

\* The indexes (from 0, as in Go) of the conditions of type Ready with status True.
ReadyTrueIndexes(conditions) ==
    SelectSeq([ i \in 1..Len(conditions) |-> i - 1 ],
              LAMBDA i : /\ conditions[i + 1].Type = ConditionReady
                         /\ conditions[i + 1].Status = "True")

ReadyTrueErrors(conditions, fldPath, detail) ==
    [ k \in 1..Len(ReadyTrueIndexes(conditions)) |->
        FieldError("Forbidden",
                   fldPath \o << "Conditions", ToString(ReadyTrueIndexes(conditions)[k]) >>,
                   detail) ]

\* The check of the operation against the instance's operations for either kind.
UnsupportedOperationErrorsOfInstances(status, fldPath, validOperations) ==
    ErrIf(status.CurrentOperation \notin validServiceInstanceOperations,
          FieldError("NotSupported", fldPath \o << "currentOperation" >>, "supported values"))

\* Lines 106-114: the operation must be one of the valid ones. The error lists the
\* valid values in the map's iteration order, which the detail leaves out.
UnsupportedOperationErrors(status, fldPath, validOperations) ==
    ErrIf(status.CurrentOperation \notin validOperations,
          FieldError("NotSupported", fldPath \o << "currentOperation" >>, "supported values"))

\* The rules of no current operation with the one on the last operation left out.
NoOperationErrorsWithoutLastOperation(status, fldPath) ==
    ErrIf(status.OperationStartTime # Nil,
          FieldError("Forbidden", fldPath \o << "operationStartTime" >>,
                     "operationStartTime must not be present when currentOperation is not present"))
    \o
    ErrIf(status.AsyncOpInProgress,
          FieldError("Forbidden", fldPath \o << "asyncOpInProgress" >>,
                     "asyncOpInProgress cannot be true when there is no currentOperation"))

\* Lines 117-125: what must be absent when there is no current operation.
NoOperationErrors(status, fldPath) ==
    ErrIf(status.OperationStartTime # Nil,
          FieldError("Forbidden", fldPath \o << "operationStartTime" >>,
                     "operationStartTime must not be present when currentOperation is not present"))
    \o
    ErrIf(status.AsyncOpInProgress,
          FieldError("Forbidden", fldPath \o << "asyncOpInProgress" >>,
                     "asyncOpInProgress cannot be true when there is no currentOperation"))
    \o
    ErrIf(status.LastOperation # Nil,
          FieldError("Forbidden", fldPath \o << "lastOperation" >>,
                     "lastOperation cannot be true when currentOperation is not present"))

\* The rules of an operation in progress with the start time not required.
OperationInProgressErrorsNoStartTime(status, fldPath) ==
    ReadyTrueErrors(status.Conditions, fldPath,
        "Can not set ServiceInstanceConditionReady to true when there is an operation in progress")

\* Lines 127-135: what an operation in progress requires and excludes.
OperationInProgressErrors(status, fldPath) ==
    ErrIf(status.OperationStartTime = Nil,
          FieldError("Required", fldPath \o << "operationStartTime" >>,
                     "operationStartTime is required when currentOperation is present"))
    \o
    ReadyTrueErrors(status.Conditions, fldPath,
        "Can not set ServiceInstanceConditionReady to true when there is an operation in progress")

\* The rules on in-progress properties with Deprovision free to carry them.
InProgressPropertiesErrorsAllowingDeprovision(status, fldPath) ==
    IF status.CurrentOperation \in { OperationProvision, OperationUpdate }
    THEN ErrIf(status.InProgressProperties = Nil,
               FieldError("Required", fldPath \o << "inProgressProperties" >>,
                          "inProgressProperties is required when currentOperation is \"Provision\" or \"Update\""))
    ELSE ErrIf(status.InProgressProperties # Nil /\ status.CurrentOperation # OperationDeprovision,
               FieldError("Forbidden", fldPath \o << "inProgressProperties" >>,
                          "inProgressProperties must not be present when currentOperation is neither \"Provision\" nor \"Update\""))

\* Lines 138-147: in-progress properties go with Provision and Update, and only them.
InProgressPropertiesErrors(status, fldPath) ==
    IF status.CurrentOperation \in { OperationProvision, OperationUpdate }
    THEN ErrIf(status.InProgressProperties = Nil,
               FieldError("Required", fldPath \o << "inProgressProperties" >>,
                          "inProgressProperties is required when currentOperation is \"Provision\" or \"Update\""))
    ELSE ErrIf(status.InProgressProperties # Nil,
               FieldError("Forbidden", fldPath \o << "inProgressProperties" >>,
                          "inProgressProperties must not be present when currentOperation is neither \"Provision\" nor \"Update\""))

validateServiceInstanceStatus(status, fldPath) ==
    UnsupportedOperationErrors(status, fldPath, validServiceInstanceOperations)
    \o
    ( IF status.CurrentOperation = ""
      THEN NoOperationErrors(status, fldPath)
      ELSE OperationInProgressErrors(status, fldPath) )
    \o
    InProgressPropertiesErrors(status, fldPath)
    \o
    ( IF status.InProgressProperties # Nil
      THEN validateServiceInstancePropertiesState(Deref(status.InProgressProperties),
                                                  fldPath \o << "inProgressProperties" >>)
      ELSE <<>> )
    \o
    ( IF status.ExternalProperties # Nil
      THEN validateServiceInstancePropertiesState(Deref(status.ExternalProperties),
                                                  fldPath \o << "externalProperties" >>)
      ELSE <<>> )

\* internalValidateServiceInstance with the rule of lines 50-54 left out.
internalValidateServiceInstanceNoGenerationRule(instance) ==
    ValidateObjectMeta(instance)
    \o validateServiceInstanceSpec(instance.Spec, << "Spec" >>)
    \o validateServiceInstanceStatus(instance.Status, << "Status" >>)

\* internalValidateServiceInstance(instance, create): `create` is handed down to
\* every validator below and read by none of them, so the model leaves it out.
internalValidateServiceInstance(instance) ==
    ValidateObjectMeta(instance)
    \o validateServiceInstanceSpec(instance.Spec, << "Spec" >>)
    \o validateServiceInstanceStatus(instance.Status, << "Status" >>)
    \o ErrIf(instance.Status.ReconciledGeneration = instance.Generation
               /\ instance.Status.CurrentOperation # "",
             FieldError("Forbidden", << "Status", "currentOperation" >>,
                        "currentOperation must not be present when reconciledGeneration and generation are the same"))

ValidateServiceInstance(instance) == internalValidateServiceInstance(instance)

AnotherOperationInProgress == "Another operation for this service instance is in progress"

\* The update check reading the new object's flag instead of the old one's.
internalValidateServiceInstanceUpdateAllowedOnNew(new, old) ==
    ErrIf(new.Status.AsyncOpInProgress,
          FieldError("Forbidden", << "Spec" >>, AnotherOperationInProgress))

internalValidateServiceInstanceUpdateAllowed(new, old) ==
    ErrIf(old.Status.AsyncOpInProgress,
          FieldError("Forbidden", << "Spec" >>, AnotherOperationInProgress))

ValidateServiceInstanceUpdate(new, old) ==
    internalValidateServiceInstanceUpdateAllowed(new, old)
    \o internalValidateServiceInstance(new)

\* The status check refusing a reconciled generation below the old one.
internalValidateServiceInstanceStatusUpdateAllowedNotBackward(new, old) ==
    ErrIf(new.Status.ReconciledGeneration < old.Status.ReconciledGeneration,
          FieldError("Forbidden", << "Status", "reconciledGeneration" >>,
                     "reconciledGeneration must not decrease"))

\* The status check refusing a write while an asynchronous operation is in
\* progress, as the update check does.
internalValidateServiceInstanceStatusUpdateAllowedNotDuringAsync(new, old) ==
    ErrIf(old.Status.AsyncOpInProgress,
          FieldError("Forbidden", << "Status" >>, AnotherOperationInProgress))

internalValidateServiceInstanceStatusUpdateAllowed(new, old) == <<>>

ValidateServiceInstanceStatusUpdate(new, old) ==
    internalValidateServiceInstanceStatusUpdateAllowed(new, old)
    \o internalValidateServiceInstance(new)

----------------------------------------------------------------------------
\* The credential validator (binding.go). Its `create` parameter is read by
\* no validator either.

validateServiceInstanceCredentialSpec(spec, fldPath) ==
    InvalidNameErrors(fldPath \o << "instanceRef", "name" >>, spec.ServiceInstanceRef.Name)
    \o InvalidNameErrors(fldPath \o << "secretName" >>, spec.SecretName)

\* Lines 90-104. The switch of lines 83-88 appends nothing in either branch.
\* ServiceInstanceCredentialConditionReady is the type "Ready" as well.
CredentialOperationErrors(status, fldPath) ==
    IF status.CurrentOperation = ""
    THEN ErrIf(status.OperationStartTime # Nil,
               FieldError("Forbidden", fldPath \o << "operationStartTime" >>,
                          "operationStartTime must not be present when currentOperation is not present"))
    ELSE ErrIf(status.OperationStartTime = Nil,
               FieldError("Required", fldPath \o << "operationStartTime" >>,
                          "operationStartTime is required when currentOperation is present"))
         \o
         ReadyTrueErrors(status.Conditions, fldPath,
             "Can not set ServiceInstanceCredentialConditionReady to true when there is an operation in progress")

\* The rules on in-progress properties with the one that forbids them left out.
CredentialInProgressPropertiesErrorsRequiredOnly(status, fldPath) ==
    ErrIf(status.CurrentOperation = OperationBind /\ status.InProgressProperties = Nil,
          FieldError("Required", fldPath \o << "inProgressProperties" >>,
                     "inProgressProperties is required when currentOperation is \"Bind\""))

\* Lines 106-114: in-progress properties go with Bind, and only with it.
CredentialInProgressPropertiesErrors(status, fldPath) ==
    IF status.CurrentOperation = OperationBind
    THEN ErrIf(status.InProgressProperties = Nil,
               FieldError("Required", fldPath \o << "inProgressProperties" >>,
                          "inProgressProperties is required when currentOperation is \"Bind\""))
    ELSE ErrIf(status.InProgressProperties # Nil,
               FieldError("Forbidden", fldPath \o << "inProgressProperties" >>,
                          "inProgressProperties must not be present when currentOperation is not \"Bind\""))

validateServiceInstanceCredentialStatus(status, fldPath) ==
    UnsupportedOperationErrors(status, fldPath, validServiceInstanceCredentialOperations)
    \o
    CredentialOperationErrors(status, fldPath)
    \o
    CredentialInProgressPropertiesErrors(status, fldPath)
    \o
    ( IF status.InProgressProperties # Nil
      THEN validateServiceInstanceCredentialPropertiesState(
               Deref(status.InProgressProperties), fldPath \o << "inProgressProperties" >>)
      ELSE <<>> )
    \o
    ( IF status.ExternalProperties # Nil
      THEN validateServiceInstanceCredentialPropertiesState(
               Deref(status.ExternalProperties), fldPath \o << "externalProperties" >>)
      ELSE <<>> )

internalValidateServiceInstanceCredential(binding) ==
    ValidateObjectMeta(binding)
    \o validateServiceInstanceCredentialSpec(binding.Spec, << "Spec" >>)
    \o validateServiceInstanceCredentialStatus(binding.Status, << "Status" >>)
    \o ErrIf(binding.Status.ReconciledGeneration = binding.Generation
               /\ binding.Status.CurrentOperation # "",
             FieldError("Forbidden", << "Status", "currentOperation" >>,
                        "currentOperation must not be present when reconciledGeneration andgeneration are the same"))

ValidateServiceInstanceCredential(binding) == internalValidateServiceInstanceCredential(binding)

ValidateServiceInstanceCredentialUpdate(new, old) == internalValidateServiceInstanceCredential(new)

ValidateServiceInstanceCredentialStatusUpdate(new, old) ==
    ValidateServiceInstanceCredentialUpdate(new, old)

----------------------------------------------------------------------------
\* The instance REST strategies.

\* setServiceInstanceUserInfo that leaves a user info already on the object.
setServiceInstanceUserInfoIfAbsent(instance, user) ==
    IF instance.Spec.UserInfo # Nil
    THEN instance
    ELSE [ instance EXCEPT !.Spec.UserInfo =
             IF user # Nil
             THEN Some([ Username |-> Deref(user).Name,
                         UID      |-> Deref(user).UID,
                         Groups   |-> Deref(user).Groups,
                         Extra    |-> Deref(user).Extra ])
             ELSE Nil ]

\* setServiceInstanceUserInfo: `user` is genericapirequest.UserFrom(ctx), Nil when
\* the context carries no user. Extra is a set of <<key, value>> pairs; the empty
\* set stands for the nil map (Semantic.DeepEqual does not tell them apart).
setServiceInstanceUserInfo(instance, user) ==
    [ instance EXCEPT !.Spec.UserInfo =
        IF user # Nil
        THEN Some([ Username |-> Deref(user).Name,
                    UID      |-> Deref(user).UID,
                    Groups   |-> Deref(user).Groups,
                    Extra    |-> Deref(user).Extra ])
        ELSE Nil ]

\* PrepareForCreate that adds the finalizer to the ones submitted.
PrepareForCreateAppendingFinalizer(instance, user, identityEnabled) ==
    LET stamped == IF identityEnabled
                   THEN setServiceInstanceUserInfo(instance, user)
                   ELSE instance
    IN  [ stamped EXCEPT !.Status     = ZeroInstanceStatus,
                         !.Finalizers = Append(instance.Finalizers, FinalizerServiceCatalog),
                         !.Generation = 1 ]

\* PrepareForCreate leaving the Status the caller supplied.
PrepareForCreateKeepingStatus(instance, user, identityEnabled) ==
    LET stamped == IF identityEnabled
                   THEN setServiceInstanceUserInfo(instance, user)
                   ELSE instance
    IN  [ stamped EXCEPT !.Finalizers = << FinalizerServiceCatalog >>,
                         !.Generation = 1 ]

PrepareForCreate(instance, user, identityEnabled) ==
    LET stamped == IF identityEnabled
                   THEN setServiceInstanceUserInfo(instance, user)
                   ELSE instance
    IN  [ stamped EXCEPT !.Status     = ZeroInstanceStatus,
                         !.Finalizers = << FinalizerServiceCatalog >>,
                         !.Generation = 1 ]

ReadyFalseCondition(lastTransitionTime) ==
    [ Type               |-> ConditionReady,
      Status             |-> "False",
      Reason             |-> "UpdateInitiated",
      Message            |-> "Update initiated on ServiceInstance",
      LastTransitionTime |-> lastTransitionTime ]

\* Whether the loop of lines 236-247 finds a condition of type Ready.
HasReadyCondition(conditions) ==
    \E i \in 1..Len(conditions) : conditions[i].Type = ConditionReady

\* The position of the first condition of type Ready.
FirstReadyCondition(conditions) ==
    CHOOSE i \in 1..Len(conditions) :
        /\ conditions[i].Type = ConditionReady
        /\ \A j \in 1..(i - 1) : conditions[j].Type # ConditionReady

\* The condition written over the Ready condition with the time always renewed.
ReplacementConditionAlwaysNow(conditions, i, now) == ReadyFalseCondition(now)

\* The condition written over the Ready condition found at position i.
ReplacementCondition(conditions, i, now) ==
    ReadyFalseCondition(IF conditions[i].Status # "False"
                        THEN now
                        ELSE conditions[i].LastTransitionTime)

\* setServiceInstanceReadyFalseCondition; `now` is what metav1.Now() returns.
setServiceInstanceReadyFalseCondition(instance, now) ==
    LET conditions == instance.Status.Conditions
    IN  IF Len(conditions) = 0
        THEN [ instance EXCEPT !.Status.Conditions = << ReadyFalseCondition(now) >> ]
        ELSE IF HasReadyCondition(conditions)
        THEN [ instance EXCEPT !.Status.Conditions[FirstReadyCondition(conditions)] =
                   ReplacementCondition(conditions, FirstReadyCondition(conditions), now) ]
        ELSE [ instance EXCEPT !.Status.Conditions = Append(conditions, ReadyFalseCondition(now)) ]

\* PrepareForUpdate with the assignment of the old Status (line 135) left out.
PrepareForUpdateKeepingStatus(new, old, user, identityEnabled, now) ==
    IF old.Spec # new.Spec
    THEN [ new |-> setServiceInstanceReadyFalseCondition(
                       [ ( IF identityEnabled
                           THEN setServiceInstanceUserInfo(new, user)
                           ELSE new ) EXCEPT !.Generation = old.Generation + 1 ], now),
           old |-> old ]
    ELSE [ new |-> new, old |-> old ]

\* PrepareForUpdate with the generation bump of line 143 left out.
PrepareForUpdateWithoutBump(new, old, user, identityEnabled, now) ==
    LET withStatus == [ new EXCEPT !.Status = old.Status ]
    IN  IF old.Spec # withStatus.Spec
        THEN [ new |-> setServiceInstanceReadyFalseCondition(
                           IF identityEnabled
                           THEN setServiceInstanceUserInfo(withStatus, user)
                           ELSE withStatus, now),
               old |-> old ]
        ELSE [ new |-> withStatus, old |-> old ]

\* instanceRESTStrategy.PrepareForUpdate. It returns both objects: the assignment
\* of line 135 copies the Status struct, so new.Status.Conditions and
\* old.Status.Conditions share one backing array, and the write of line 244 into
\* new's conditions is a write into old's as well.
PrepareForUpdate(new, old, user, identityEnabled, now) ==
    LET withStatus == [ new EXCEPT !.Status = old.Status ]
    IN  IF old.Spec # withStatus.Spec
        THEN LET stamped == IF identityEnabled
                            THEN setServiceInstanceUserInfo(withStatus, user)
                            ELSE withStatus
                 bumped  == [ stamped EXCEPT !.Generation = old.Generation + 1 ]
                 conditions == old.Status.Conditions
             IN  [ new |-> setServiceInstanceReadyFalseCondition(bumped, now),
                   old |-> IF HasReadyCondition(conditions)
                           THEN [ old EXCEPT !.Status.Conditions[FirstReadyCondition(conditions)] =
                                      ReplacementCondition(conditions,
                                                           FirstReadyCondition(conditions), now) ]
                           ELSE old ]
        ELSE [ new |-> withStatus, old |-> old ]

\* The status strategy's PrepareForUpdate leaving the submitted Spec.
StatusPrepareForUpdateKeepingSpec(new, old) == new

\* instanceStatusRESTStrategy.PrepareForUpdate
StatusPrepareForUpdate(new, old) == [ new EXCEPT !.Spec = old.Spec ]

\* CheckGracefulDelete that leaves the object as it is.
CheckGracefulDeleteWithoutUserInfo(instance, user, identityEnabled) ==
    [ object |-> instance, graceful |-> FALSE ]

\* instanceRESTStrategy.CheckGracefulDelete: the object as stamped, and the answer.
\* The delete options are not read.
CheckGracefulDelete(instance, user, identityEnabled) ==
    [ object   |-> IF identityEnabled
                   THEN setServiceInstanceUserInfo(instance, user)
                   ELSE instance,
      graceful |-> FALSE ]

----------------------------------------------------------------------------
\* Requests the plug-in is exercised with.

GateInstance(gen, rg, del) ==
    [ TestInstance EXCEPT !.Generation = gen,
                          !.Status.ReconciledGeneration = rg,
                          !.DeletionTimestamp = del ]

GateCredential(gen, rg, del) ==
    [ TestCredential EXCEPT !.Generation = gen,
                            !.Status.ReconciledGeneration = rg,
                            !.DeletionTimestamp = del ]

Deletions == { Nil, Some(1) }

GateObjects ==
    { GateInstance(g, r, d) : g \in Generations, r \in Generations, d \in Deletions }
    \cup { GateCredential(g, r, d) : g \in Generations, r \in Generations, d \in Deletions }
    \cup { OtherObject }

GateGroups == { GroupName, "apps" }
GateResources == { "serviceinstances", "serviceinstancecredentials", "servicebrokers" }
GateSubresources == { "", "status" }

GateRequests ==
    { Attributes(g, r, s, o) : g \in GateGroups, r \in GateResources,
                               s \in GateSubresources, o \in GateObjects }

----------------------------------------------------------------------------
\* Actions of the plug-in.

NoResult == [ op |-> "none" ]

\* The clients that read the instance and write it back concurrently: two users
\* and the reconciler.
Users == { "user-1", "user-2" }

Reconciler == "reconciler"

\* No client holds a copy of the instance. The specifications with a single
\* client, whose every write carries the version it has just read, stay here.
NoClients ==
    /\ resourceVersion = 0
    /\ held = [ c \in Users \cup { Reconciler } |-> Nil ]

\* The instance informer completes its initial list.
SyncInstances ==
    /\ ~instanceSynced
    /\ instanceSynced' = TRUE
    /\ UNCHANGED <<credentialSynced, originatingIdentity, stored, result, resourceVersion, held>>

\* The credential informer completes its initial list.
SyncCredentials ==
    /\ ~credentialSynced
    /\ credentialSynced' = TRUE
    /\ UNCHANGED <<instanceSynced, originatingIdentity, stored, result, resourceVersion, held>>

\* The admission chain hands an update request to the plug-in, which decides it.
AdmitRequest(a) ==
    /\ result = NoResult
    /\ result' = [ op |-> "Admit", attrs |-> a, ready |-> ReadyFunc,
                   decision |-> Admit(a, ReadyFunc) ]
    /\ UNCHANGED <<instanceSynced, credentialSynced, originatingIdentity, stored, resourceVersion, held>>

\* The handler returns its response; nothing of the request is kept.
Return ==
    /\ result # NoResult
    /\ result' = NoResult
    /\ UNCHANGED <<instanceSynced, credentialSynced, originatingIdentity, stored, resourceVersion, held>>

----------------------------------------------------------------------------
\* The write path of one ServiceInstance: requests, and the stages each runs through.

\* The user of a request's context.
Alice ==
    [ Name |-> "alice", UID |-> "uid-alice", Groups |-> << "developers" >>,
      Extra |-> { << "scope", "catalog" >> } ]

PlanNames == { "test-plan", "test-plan-2", "" }

ReadyCondition(status) ==
    [ Type |-> ConditionReady, Status |-> status, Reason |-> "Reconciled",
      Message |-> "set by the reconciler", LastTransitionTime |-> 1 ]

\* &servicecatalog.ServiceInstancePropertiesState{} : no parameters, no checksum.
EmptyPropertiesState == [ Parameters |-> Nil, ParametersChecksum |-> <<>> ]

\* A status with no operation in progress.
IdleStatus(rg, conditions) ==
    [ ZeroInstanceStatus EXCEPT !.ReconciledGeneration = rg, !.Conditions = conditions ]

\* A status with operation `op` in progress, as the reconciler writes it.
OperationStatus(op, rg, async, lastOperation, conditions) ==
    [ ZeroInstanceStatus EXCEPT
        !.ReconciledGeneration = rg,
        !.CurrentOperation     = op,
        !.OperationStartTime   = Some(1),
        !.AsyncOpInProgress    = async,
        !.LastOperation        = lastOperation,
        !.InProgressProperties = IF op \in { OperationProvision, OperationUpdate }
                                 THEN Some(EmptyPropertiesState) ELSE Nil,
        !.Conditions           = conditions ]

\* Statuses that break one rule of the validator each.
BrokenStatuses(rg) ==
    { [ IdleStatus(rg, <<>>) EXCEPT !.OperationStartTime = Some(1) ],
      [ IdleStatus(rg, <<>>) EXCEPT !.AsyncOpInProgress = TRUE ],
      [ IdleStatus(rg, <<>>) EXCEPT !.InProgressProperties = Some(EmptyPropertiesState) ],
      [ OperationStatus(OperationProvision, rg, FALSE, Nil, <<>>) EXCEPT !.OperationStartTime = Nil ],
      [ OperationStatus(OperationUpdate, rg, FALSE, Nil, <<>>) EXCEPT !.InProgressProperties = Nil ],
      [ OperationStatus(OperationDeprovision, rg, FALSE, Nil, <<>>)
            EXCEPT !.InProgressProperties = Some(EmptyPropertiesState) ],
      OperationStatus(OperationProvision, rg, FALSE, Nil, << ReadyCondition("True") >>),
      OperationStatus("bad-operation", rg, FALSE, Nil, <<>>) }

\* The statuses a status-subresource request may carry.
RequestStatuses ==
    UNION { { IdleStatus(rg, c) : c \in { <<>>, << ReadyCondition("True") >> } }
            \cup
            { OperationStatus(op, rg, al[1], al[2], <<>>) :
                op \in { OperationProvision, OperationUpdate, OperationDeprovision },
                al \in { << FALSE, Nil >>, << TRUE, Some("polling") >> } }
            \cup BrokenStatuses(rg)
          : rg \in Generations }

\* What a client may send to create the instance: any plan, generation and status.
CreateRequests ==
    { [ TestInstance EXCEPT !.Spec.PlanName = p, !.Generation = g, !.Status = s ] :
        p \in PlanNames, g \in { 0, MaxGen },
        s \in { ZeroInstanceStatus,
                OperationStatus(OperationProvision, 0, TRUE, Nil, << ReadyCondition("True") >>) } }

\* What a client may send to update the instance `old`: the object it read, with
\* any plan, and with any generation, reconciled generation and deletion timestamp.
UpdateRequest(old, p, g, rg, d) ==
    [ old EXCEPT !.Spec.PlanName = p, !.Generation = g,
                 !.Status.ReconciledGeneration = rg, !.DeletionTimestamp = d ]

\* What the reconciler may send to the status subresource of `old`: the object it
\* read, with any generation and any status.
StatusUpdateRequest(old, g, s) ==
    [ old EXCEPT !.Generation = g, !.Status = s ]

\* A create request: PrepareForCreate, then Validate. The plug-in handles updates
\* only (NewHandler(admission.Update)) and is not consulted.
CreateInstance(req, user) ==
    /\ result = NoResult
    /\ stored = Nil
    /\ LET new  == PrepareForCreate(req, user, originatingIdentity)
           errs == ValidateServiceInstance(new)
       IN  /\ stored' = IF errs = <<>> THEN Some(new) ELSE Nil
           /\ result' = [ op |-> "Create", req |-> req, old |-> Nil, ready |-> ReadyFunc,
                          decision |-> Allow, errs |-> errs, accepted |-> errs = <<>> ]
    /\ UNCHANGED <<instanceSynced, credentialSynced, originatingIdentity, resourceVersion, held>>

\* An update request: the plug-in decides on the object as submitted, then the
\* strategy prepares it against the stored object and validates it.
UpdateInstance(req, user, now) ==
    /\ result = NoResult
    /\ stored # Nil
    /\ LET old      == Deref(stored)
           decision == Admit(Attributes(GroupName, "serviceinstances", "", req), ReadyFunc)
           prepared == PrepareForUpdate(req, old, user, originatingIdentity, now)
           errs     == ValidateServiceInstanceUpdate(prepared.new, prepared.old)
           accepted == decision = Allow /\ errs = <<>>
       IN  /\ req.Spec # old.Spec => old.Generation < MaxGen
           /\ stored' = IF accepted THEN Some(prepared.new) ELSE stored
           /\ result' = [ op |-> "Update", req |-> req, old |-> stored, ready |-> ReadyFunc,
                          decision |-> decision,
                          errs |-> IF decision = Allow THEN errs ELSE <<>>,
                          accepted |-> accepted ]
    /\ UNCHANGED <<instanceSynced, credentialSynced, originatingIdentity, resourceVersion, held>>

\* An update request on the status subresource: the plug-in, then the status
\* strategy's PrepareForUpdate and ValidateUpdate.
UpdateInstanceStatus(req) ==
    /\ result = NoResult
    /\ stored # Nil
    /\ LET old      == Deref(stored)
           decision == Admit(Attributes(GroupName, "serviceinstances", "status", req), ReadyFunc)
           new      == StatusPrepareForUpdate(req, old)
           errs     == ValidateServiceInstanceStatusUpdate(new, old)
           accepted == decision = Allow /\ errs = <<>>
       IN  /\ stored' = IF accepted THEN Some(new) ELSE stored
           /\ result' = [ op |-> "UpdateStatus", req |-> req, old |-> stored, ready |-> ReadyFunc,
                          decision |-> decision,
                          errs |-> IF decision = Allow THEN errs ELSE <<>>,
                          accepted |-> accepted ]
    /\ UNCHANGED <<instanceSynced, credentialSynced, originatingIdentity, resourceVersion, held>>

\* A delete request: CheckGracefulDelete stamps the identity and declines graceful
\* deletion; the finalizer keeps the object, which is marked as being deleted.
DeleteInstance(user, now) ==
    /\ result = NoResult
    /\ stored # Nil
    /\ Deref(stored).DeletionTimestamp = Nil
    /\ LET checked == CheckGracefulDelete(Deref(stored), user, originatingIdentity)
           new     == [ checked.object EXCEPT !.DeletionTimestamp = Some(now) ]
       IN  /\ stored' = Some(new)
           /\ result' = [ op |-> "Delete", req |-> Deref(stored), old |-> stored,
                          ready |-> ReadyFunc, decision |-> Allow,
                          errs |-> <<>>, accepted |-> TRUE ]
    /\ UNCHANGED <<instanceSynced, credentialSynced, originatingIdentity, resourceVersion, held>>

\* The plug-in is initialized and no informer has synced; the OriginatingIdentity
\* feature has its default, off.
Init ==
    /\ NoClients
    /\ instanceSynced = FALSE
    /\ credentialSynced = FALSE
    /\ originatingIdentity = FALSE
    /\ stored = Nil
    /\ result = NoResult

Next ==
    \/ SyncInstances
    \/ SyncCredentials
    \/ \E req \in CreateRequests : CreateInstance(req, Some(Alice))
    \/ /\ stored # Nil
       /\ \E p \in PlanNames, g \in Generations, rg \in Generations, d \in Deletions,
             now \in Times :
              UpdateInstance(UpdateRequest(Deref(stored), p, g, rg, d), Some(Alice), now)
    \/ /\ stored # Nil
       /\ \E g \in Generations, s \in RequestStatuses :
              UpdateInstanceStatus(StatusUpdateRequest(Deref(stored), g, s))
    \/ \E now \in Times : DeleteInstance(Some(Alice), now)
    \/ Return

Spec == Init /\ [][Next]_vars

InitGate ==
    /\ NoClients
    /\ instanceSynced = FALSE
    /\ credentialSynced = FALSE
    /\ originatingIdentity = FALSE
    /\ stored = Nil
    /\ result = NoResult

NextGate ==
    \/ SyncInstances
    \/ SyncCredentials
    \/ \E a \in GateRequests : AdmitRequest(a)
    \/ Return

SpecGate == InitGate /\ [][NextGate]_vars

----------------------------------------------------------------------------
\* The validators on their own: a call with any pair of objects.

\* A condition type other than Ready.
ConditionFailed == "Failed"

FailedCondition ==
    [ Type |-> ConditionFailed, Status |-> "False", Reason |-> "NotFailed",
      Message |-> "set by the reconciler", LastTransitionTime |-> 1 ]

\* Condition lists with a Ready condition that is not True, with another type
\* that is True, and with a Ready condition that is True after another condition.
ValidateConditions ==
    { << ReadyCondition("False") >>,
      << ReadyCondition("Unknown") >>,
      << [ FailedCondition EXCEPT !.Status = "True" ] >>,
      << [ FailedCondition EXCEPT !.Status = "True" ], ReadyCondition("True") >>,
      << ReadyCondition("False"), ReadyCondition("True") >> }

\* Statuses with those conditions: idle, in an operation, in an unknown operation.
ConditionStatuses ==
    UNION { { IdleStatus(0, c),
              OperationStatus(OperationProvision, 0, FALSE, Nil, c),
              OperationStatus("bad-operation", 0, FALSE, Nil, c) } : c \in ValidateConditions }

\* Statuses with what the other ones leave out: a last operation and no current
\* one, an asynchronous operation with no last operation, and in-progress
\* properties with an unknown operation.
FurtherStatuses ==
    { [ IdleStatus(0, <<>>) EXCEPT !.LastOperation = Some("polling") ],
      OperationStatus(OperationDeprovision, 0, TRUE, Nil, <<>>),
      [ OperationStatus("bad-operation", 0, FALSE, Nil, <<>>)
            EXCEPT !.InProgressProperties = Some(EmptyPropertiesState) ] }

\* Statuses with an operation the validators do not know, with and without its
\* start time.
UnknownOperationStatuses(rg) ==
    { [ ZeroInstanceStatus EXCEPT !.ReconciledGeneration = rg,
                                  !.CurrentOperation = "bad-operation",
                                  !.OperationStartTime = t ] : t \in { Nil, Some(1) } }

\* The new object of a call: any generation, plan and status.
NewInstances ==
    { [ TestInstance EXCEPT !.Generation = g, !.Spec.PlanName = p, !.Status = s ] :
        g \in Generations, p \in PlanNames,
        s \in RequestStatuses \cup UNION { UnknownOperationStatuses(rg) : rg \in Generations }
              \cup ConditionStatuses \cup FurtherStatuses }

\* The old object of a call: idle or in an operation, synchronous or asynchronous,
\* or with the asynchronous flag alone.
OldInstances ==
    { [ TestInstance EXCEPT !.Generation = 1, !.Spec.PlanName = p, !.Status = s ] :
        p \in { "test-plan", "test-plan-2" },
        s \in { IdleStatus(0, <<>>),
                IdleStatus(1, << ReadyCondition("True") >>),
                OperationStatus(OperationProvision, 0, FALSE, Nil, <<>>),
                OperationStatus(OperationProvision, 0, TRUE, Some("polling"), <<>>),
                OperationStatus(OperationDeprovision, 0, TRUE, Nil, <<>>),
                [ IdleStatus(1, <<>>) EXCEPT !.AsyncOpInProgress = TRUE ] } }

\* The statuses of a credential: any operation, known or not, with and without
\* its start time, its in-progress properties and a Ready condition.
CredentialStatuses ==
    { [ ZeroCredentialStatus EXCEPT !.ReconciledGeneration = rg,
                                    !.CurrentOperation = op,
                                    !.OperationStartTime = t,
                                    !.InProgressProperties = ipp,
                                    !.Conditions = c ] :
        rg \in Generations,
        op \in { "", OperationBind, OperationUnbind, "bad-operation" },
        t \in { Nil, Some(1) },
        ipp \in { Nil, Some(EmptyPropertiesState) },
        c \in { <<>>, << ReadyCondition("True") >> } \cup ValidateConditions }

\* The new credential of a call: any generation, secret name and status.
NewCredentials ==
    { [ TestCredential EXCEPT !.Generation = g, !.Spec.SecretName = n, !.Status = s ] :
        g \in Generations, n \in { "test-secret", "" }, s \in CredentialStatuses }

\* The old credential of a call, which no credential validator reads.
OldCredentials ==
    { [ TestCredential EXCEPT !.Generation = 1 ] }

\* The caller holds the two objects, instances or credentials.
InitValidate ==
    /\ NoClients
    /\ instanceSynced = FALSE
    /\ credentialSynced = FALSE
    /\ originatingIdentity = FALSE
    /\ stored = Nil
    /\ result \in { [ op |-> "input", new |-> n, old |-> o ] :
                      n \in NewInstances, o \in OldInstances }
                  \cup
                  { [ op |-> "input", new |-> n, old |-> o ] :
                      n \in NewCredentials, o \in OldCredentials }

\* The outcome of a validator on the two objects held.
Validated(op, errs) ==
    [ op |-> op, new |-> result.new, old |-> result.old, errs |-> errs ]

\* instanceRESTStrategy.Validate hands the new object to the validator.
ValidateCreate ==
    /\ result.op = "input"
    /\ result.new.kind = "ServiceInstance"
    /\ result' = Validated("Validate", ValidateServiceInstance(result.new))
    /\ UNCHANGED <<instanceSynced, credentialSynced, originatingIdentity, stored, resourceVersion, held>>

\* instanceRESTStrategy.ValidateUpdate hands the two objects to the validator.
ValidateUpdate ==
    /\ result.op = "input"
    /\ result.new.kind = "ServiceInstance"
    /\ result' = Validated("ValidateUpdate",
                           ValidateServiceInstanceUpdate(result.new, result.old))
    /\ UNCHANGED <<instanceSynced, credentialSynced, originatingIdentity, stored, resourceVersion, held>>

\* instanceStatusRESTStrategy.ValidateUpdate hands the two objects to the validator.
ValidateStatusUpdate ==
    /\ result.op = "input"
    /\ result.new.kind = "ServiceInstance"
    /\ result' = Validated("ValidateStatusUpdate",
                           ValidateServiceInstanceStatusUpdate(result.new, result.old))
    /\ UNCHANGED <<instanceSynced, credentialSynced, originatingIdentity, stored, resourceVersion, held>>

\* A call of ValidateServiceInstanceCredential.
ValidateCredentialCreate ==
    /\ result.op = "input"
    /\ result.new.kind = "ServiceInstanceCredential"
    /\ result' = Validated("Validate", ValidateServiceInstanceCredential(result.new))
    /\ UNCHANGED <<instanceSynced, credentialSynced, originatingIdentity, stored, resourceVersion, held>>

\* A call of ValidateServiceInstanceCredentialUpdate.
ValidateCredentialUpdate ==
    /\ result.op = "input"
    /\ result.new.kind = "ServiceInstanceCredential"
    /\ result' = Validated("ValidateUpdate",
                           ValidateServiceInstanceCredentialUpdate(result.new, result.old))
    /\ UNCHANGED <<instanceSynced, credentialSynced, originatingIdentity, stored, resourceVersion, held>>

\* A call of ValidateServiceInstanceCredentialStatusUpdate.
ValidateCredentialStatusUpdate ==
    /\ result.op = "input"
    /\ result.new.kind = "ServiceInstanceCredential"
    /\ result' = Validated("ValidateStatusUpdate",
                           ValidateServiceInstanceCredentialStatusUpdate(result.new, result.old))
    /\ UNCHANGED <<instanceSynced, credentialSynced, originatingIdentity, stored, resourceVersion, held>>

NextValidate ==
    \/ ValidateCreate
    \/ ValidateUpdate
    \/ ValidateStatusUpdate
    \/ ValidateCredentialCreate
    \/ ValidateCredentialUpdate
    \/ ValidateCredentialStatusUpdate

SpecValidate == InitValidate /\ [][NextValidate]_vars

----------------------------------------------------------------------------
\* The strategies' preparation steps on their own: a call with any objects.

\* The condition lists of the old objects: none, Ready alone with either status,
\* another type alone, both types in either order, and Ready twice in either
\* order.
PrepareConditions ==
    { <<>>,
      << ReadyCondition("True") >>,
      << ReadyCondition("False") >>,
      << FailedCondition >>,
      << FailedCondition, ReadyCondition("True") >>,
      << ReadyCondition("Unknown"), FailedCondition >>,
      << ReadyCondition("False"), ReadyCondition("True") >>,
      << FailedCondition, ReadyCondition("False") >>,
      << ReadyCondition("True"), ReadyCondition("False") >> }

\* A user info on an object before the strategy sees it: of another user, with
\* no extra attributes.
SuppliedUserInfo ==
    Some([ Username |-> "mallory", UID |-> "uid-mallory", Groups |-> <<>>, Extra |-> {} ])

\* The old object of a preparation: stored statuses, idle or in an operation,
\* with and without the user info of an earlier request.
PrepareOldInstances ==
    UNION { { [ TestInstance EXCEPT !.Generation = g,
                                    !.Finalizers = << FinalizerServiceCatalog >>,
                                    !.Spec.UserInfo = u,
                                    !.Status = s ] :
                u \in { Nil, SuppliedUserInfo },
                s \in { IdleStatus(g, c) : c \in PrepareConditions }
                      \cup { OperationStatus(OperationProvision, 0, TRUE, Some("polling"), <<>>),
                             [ OperationStatus(OperationUpdate, 0, FALSE, Nil, << FailedCondition >>)
                                 EXCEPT !.ExternalProperties = Some(EmptyPropertiesState) ] } }
          : g \in Generations }

\* The object a caller submits: any plan, generation, finalizers, user info and
\* status.
PrepareNewInstances ==
    { [ TestInstance EXCEPT !.Spec.PlanName = p, !.Generation = g, !.Finalizers = f,
                            !.Spec.UserInfo = u, !.Status = s ] :
        p \in { "test-plan", "test-plan-2" },
        u \in { Nil, SuppliedUserInfo },
        g \in Generations,
        f \in { <<>>, << "other-finalizer" >> },
        s \in { ZeroInstanceStatus,
                IdleStatus(MaxGen, << ReadyCondition("True") >>),
                OperationStatus(OperationDeprovision, 1, TRUE, Some("polling"),
                                << FailedCondition >>) } }

\* The users a request context may carry: none, or Alice.
PrepareUsers == { Nil, Some(Alice) }

\* The caller holds the two objects; the feature gate is on or off.
InitPrepare ==
    /\ NoClients
    /\ instanceSynced = FALSE
    /\ credentialSynced = FALSE
    /\ originatingIdentity \in BOOLEAN
    /\ stored = Nil
    /\ result \in { [ op |-> "input", new |-> n, old |-> o ] :
                      n \in PrepareNewInstances, o \in PrepareOldInstances }

\* A call of instanceRESTStrategy.PrepareForUpdate(ctx, new, old).
PrepareUpdate(user, now) ==
    /\ result.op = "input"
    /\ result' = [ op       |-> "PrepareForUpdate",
                   new      |-> result.new,
                   old      |-> result.old,
                   user     |-> user,
                   now      |-> now,
                   prepared |-> PrepareForUpdate(result.new, result.old, user,
                                                 originatingIdentity, now) ]
    /\ UNCHANGED <<instanceSynced, credentialSynced, originatingIdentity, stored, resourceVersion, held>>

\* A call of instanceRESTStrategy.PrepareForCreate(ctx, obj).
PrepareCreate(user) ==
    /\ result.op = "input"
    /\ result' = [ op       |-> "PrepareForCreate",
                   new      |-> result.new,
                   user     |-> user,
                   prepared |-> PrepareForCreate(result.new, user, originatingIdentity) ]
    /\ UNCHANGED <<instanceSynced, credentialSynced, originatingIdentity, stored, resourceVersion, held>>

\* A call of instanceRESTStrategy.CheckGracefulDelete(ctx, obj, options) on the
\* stored object.
PrepareDelete(user) ==
    /\ result.op = "input"
    /\ result' = [ op      |-> "CheckGracefulDelete",
                   old     |-> result.old,
                   user    |-> user,
                   checked |-> CheckGracefulDelete(result.old, user, originatingIdentity) ]
    /\ UNCHANGED <<instanceSynced, credentialSynced, originatingIdentity, stored, resourceVersion, held>>

\* A call of instanceStatusRESTStrategy.PrepareForUpdate(ctx, new, old).
PrepareStatusUpdate ==
    /\ result.op = "input"
    /\ result' = [ op       |-> "StatusPrepareForUpdate",
                   new      |-> result.new,
                   old      |-> result.old,
                   prepared |-> StatusPrepareForUpdate(result.new, result.old) ]
    /\ UNCHANGED <<instanceSynced, credentialSynced, originatingIdentity, stored, resourceVersion, held>>

NextPrepare ==
    \/ \E user \in PrepareUsers, now \in Times : PrepareUpdate(user, now)
    \/ \E user \in PrepareUsers : PrepareCreate(user)
    \/ \E user \in PrepareUsers : PrepareDelete(user)
    \/ PrepareStatusUpdate

SpecPrepare == InitPrepare /\ [][NextPrepare]_vars

----------------------------------------------------------------------------
\* The status validators on statuses that carry properties states.

\* A checksum of n times the character c.
Repeated(c, n) == [ i \in 1..n |-> c ]

\* Checksums: none; of the right length in hexadecimal digits of either case;
\* one character short and one long; of the right length with one character
\* that is no hexadecimal digit; short ones.
Checksums ==
    { <<>>,
      Repeated("a", ChecksumLength),
      [ i \in 1..ChecksumLength |-> IF i % 2 = 0 THEN "F" ELSE "0" ],
      Repeated("a", ChecksumLength - 1),
      Repeated("a", ChecksumLength + 1),
      [ Repeated("a", ChecksumLength) EXCEPT ![ChecksumLength] = "g" ],
      << "g" >>,
      << "a" >> }

\* Parameters of a properties state: none, or a raw document.
RawParameters ==
    { Nil } \cup { Some([ Raw |-> r ]) : r \in { RawEmpty, RawMap, RawList, RawBroken } }

PropertiesStates ==
    { [ Parameters |-> p, ParametersChecksum |-> c ] : p \in RawParameters, c \in Checksums }

\* The properties states that accompany the one looked at.
OtherPropertiesStates ==
    { Nil,
      Some(EmptyPropertiesState),
      Some([ Parameters |-> Nil, ParametersChecksum |-> << "g" >> ]) }

\* An instance status with these properties and nothing else to object to.
InstanceStatusWith(inProgress, external) ==
    [ ZeroInstanceStatus EXCEPT
        !.CurrentOperation     = IF inProgress # Nil THEN OperationProvision ELSE "",
        !.OperationStartTime   = IF inProgress # Nil THEN Some(1) ELSE Nil,
        !.InProgressProperties = inProgress,
        !.ExternalProperties   = external ]

\* A credential status with these properties and nothing else to object to.
CredentialStatusWith(inProgress, external) ==
    [ ZeroCredentialStatus EXCEPT
        !.CurrentOperation     = IF inProgress # Nil THEN OperationBind ELSE "",
        !.OperationStartTime   = IF inProgress # Nil THEN Some(1) ELSE Nil,
        !.InProgressProperties = inProgress,
        !.ExternalProperties   = external ]

\* The caller holds the two properties states, one of them any state at all.
InitProperties ==
    /\ NoClients
    /\ instanceSynced = FALSE
    /\ credentialSynced = FALSE
    /\ originatingIdentity = FALSE
    /\ stored = Nil
    /\ result \in { [ op |-> "input", inProgress |-> Some(ps), external |-> o ] :
                      ps \in PropertiesStates, o \in OtherPropertiesStates }
                  \cup
                  { [ op |-> "input", inProgress |-> o, external |-> Some(ps) ] :
                      ps \in PropertiesStates, o \in OtherPropertiesStates }

\* A call of validateServiceInstanceStatus.
ValidateInstanceProperties ==
    /\ result.op = "input"
    /\ result' = [ op         |-> "validateServiceInstanceStatus",
                   inProgress |-> result.inProgress,
                   external   |-> result.external,
                   errs       |-> validateServiceInstanceStatus(
                                      InstanceStatusWith(result.inProgress, result.external),
                                      << "Status" >>) ]
    /\ UNCHANGED <<instanceSynced, credentialSynced, originatingIdentity, stored, resourceVersion, held>>

\* A call of validateServiceInstanceCredentialStatus.
ValidateCredentialProperties ==
    /\ result.op = "input"
    /\ result' = [ op         |-> "validateServiceInstanceCredentialStatus",
                   inProgress |-> result.inProgress,
                   external   |-> result.external,
                   errs       |-> validateServiceInstanceCredentialStatus(
                                      CredentialStatusWith(result.inProgress, result.external),
                                      << "Status" >>) ]
    /\ UNCHANGED <<instanceSynced, credentialSynced, originatingIdentity, stored, resourceVersion, held>>

NextProperties ==
    \/ ValidateInstanceProperties
    \/ ValidateCredentialProperties

SpecProperties == InitProperties /\ [][NextProperties]_vars

----------------------------------------------------------------------------
\* The operations handed an object of any kind: the type assertions of the
\* strategies and of the plug-in.

\* How a call ends: it returns, glog.Fatal ends the process, or a failed type
\* assertion panics.
Returned == [ kind |-> "returned", message |-> "" ]
Fatal(message) == [ kind |-> "fatal", message |-> message ]
Panicked == [ kind |-> "panic", message |-> "interface conversion" ]

\* obj.(*sc.ServiceInstance) succeeds.
IsServiceInstance(obj) == obj.kind = "ServiceInstance"

\* The end of an operation that asserts the type of one object and is fatal
\* with `message` when the assertion fails.
AssertOne(obj, message) ==
    IF ~IsServiceInstance(obj) THEN Fatal(message) ELSE Returned

\* The end of an operation that asserts the type of new and then of old.
AssertTwo(new, old, what) ==
    IF ~IsServiceInstance(new)
    THEN Fatal("received a non-instance object to " \o what \o " to")
    ELSE IF ~IsServiceInstance(old)
    THEN Fatal("received a non-instance object to " \o what \o " from")
    ELSE Returned

\* The ends of the strategies' operations.
CanonicalizeEnd(obj) == AssertOne(obj, "received a non-instance object to create")
PrepareForCreateEnd(obj) == AssertOne(obj, "received a non-instance object to create")
ValidateEnd(obj) == IF ~IsServiceInstance(obj) THEN Panicked ELSE Returned
PrepareForUpdateEnd(new, old) == AssertTwo(new, old, "update")
ValidateUpdateEnd(new, old) == AssertTwo(new, old, "validate")
StatusPrepareForUpdateEnd(new, old) == AssertTwo(new, old, "update")
StatusValidateUpdateEnd(new, old) == AssertTwo(new, old, "validate")

\* CheckGracefulDelete asserts the type inside the branch of the feature gate.
CheckGracefulDeleteEnd(obj, identityEnabled) ==
    IF identityEnabled
    THEN AssertOne(obj, "received a non-instance object to delete")
    ELSE Returned

\* The objects the dispatch layer may hand over.
MisroutedObjects == { TestInstance, TestCredential, OtherObject }

\* The operations of the strategies, by name.
StrategyOperations ==
    { "Canonicalize", "PrepareForCreate", "Validate", "PrepareForUpdate", "ValidateUpdate",
      "CheckGracefulDelete", "StatusPrepareForUpdate", "StatusValidateUpdate" }

StrategyEnd(operation, new, old, identityEnabled) ==
    CASE operation = "Canonicalize"           -> CanonicalizeEnd(new)
      [] operation = "PrepareForCreate"       -> PrepareForCreateEnd(new)
      [] operation = "Validate"               -> ValidateEnd(new)
      [] operation = "PrepareForUpdate"       -> PrepareForUpdateEnd(new, old)
      [] operation = "ValidateUpdate"         -> ValidateUpdateEnd(new, old)
      [] operation = "CheckGracefulDelete"    -> CheckGracefulDeleteEnd(new, identityEnabled)
      [] operation = "StatusPrepareForUpdate" -> StatusPrepareForUpdateEnd(new, old)
      [] operation = "StatusValidateUpdate"   -> StatusValidateUpdateEnd(new, old)

\* The dispatch layer holds two objects of any kind; the informers have synced
\* or not, the feature gate is on or off.
InitMisroute ==
    /\ NoClients
    /\ instanceSynced \in BOOLEAN
    /\ credentialSynced \in BOOLEAN
    /\ originatingIdentity \in BOOLEAN
    /\ stored = Nil
    /\ result \in { [ op |-> "input", new |-> n, old |-> o ] :
                      n \in MisroutedObjects, o \in MisroutedObjects }

\* A call of one operation of the strategies with the objects held.
CallStrategy(operation) ==
    /\ result.op = "input"
    /\ result' = [ op  |-> operation,
                   new |-> result.new,
                   old |-> result.old,
                   end |-> StrategyEnd(operation, result.new, result.old, originatingIdentity) ]
    /\ UNCHANGED <<instanceSynced, credentialSynced, originatingIdentity, stored, resourceVersion, held>>

\* A call of Admit for a non-status update of `resource` with the new object.
CallAdmit(resource) ==
    /\ result.op = "input"
    /\ result' = [ op       |-> "Admit",
                   new      |-> result.new,
                   old      |-> result.old,
                   attrs    |-> Attributes(GroupName, resource, "", result.new),
                   ready    |-> ReadyFunc,
                   decision |-> Admit(Attributes(GroupName, resource, "", result.new),
                                      ReadyFunc) ]
    /\ UNCHANGED <<instanceSynced, credentialSynced, originatingIdentity, stored, resourceVersion, held>>

NextMisroute ==
    \/ \E operation \in StrategyOperations : CallStrategy(operation)
    \/ \E resource \in { "serviceinstances", "serviceinstancecredentials" } : CallAdmit(resource)

SpecMisroute == InitMisroute /\ [][NextMisroute]_vars

----------------------------------------------------------------------------
\* The write path with the reconciler finishing what is in progress.

\* The status the reconciler writes to finish: no operation, nothing of it left,
\* and the generation reconciled.
FinishedStatus(instance) ==
    [ instance.Status EXCEPT
        !.CurrentOperation     = "",
        !.OperationStartTime   = Nil,
        !.AsyncOpInProgress    = FALSE,
        !.LastOperation        = Nil,
        !.InProgressProperties = Nil,
        !.ReconciledGeneration = instance.Generation ]

\* The reconciler's request to the status subresource: the stored object with
\* the finished status. Its request does not wait for the response of another.
FinishOperation ==
    /\ stored # Nil
    /\ LET old      == Deref(stored)
           req      == [ old EXCEPT !.Status = FinishedStatus(old) ]
           decision == Admit(Attributes(GroupName, "serviceinstances", "status", req), ReadyFunc)
           new      == StatusPrepareForUpdate(req, old)
           errs     == ValidateServiceInstanceStatusUpdate(new, old)
           accepted == decision = Allow /\ errs = <<>>
       IN  /\ stored' = IF accepted THEN Some(new) ELSE stored
           /\ result' = [ op |-> "FinishOperation", req |-> req, old |-> stored,
                          ready |-> ReadyFunc, decision |-> decision,
                          errs |-> IF decision = Allow THEN errs ELSE <<>>,
                          accepted |-> accepted ]
    /\ UNCHANGED <<instanceSynced, credentialSynced, originatingIdentity, resourceVersion, held>>

NextReconcile ==
    \/ Next
    \/ FinishOperation

\* The informers complete their lists and the reconciler keeps trying to finish.
SpecReconcile ==
    /\ Init
    /\ [][NextReconcile]_vars
    /\ WF_vars(SyncInstances)
    /\ WF_vars(SyncCredentials)
    /\ WF_vars(FinishOperation)

----------------------------------------------------------------------------
\* Properties of the admission plug-in, stated on the decision recorded by
\* AdmitRequest and checked under SpecGate.

\* The request names a managed resource and carries an object of that kind.
ManagedRequest(a) ==
    \/ a.Resource = "serviceinstances" /\ a.Object.kind = "ServiceInstance"
    \/ a.Resource = "serviceinstancecredentials" /\ a.Object.kind = "ServiceInstanceCredential"

\* A decision of the ready plug-in on a non-status update of a managed resource
\* of the service-catalog group.
DecidedManagedUpdate ==
    /\ result.op = "Admit"
    /\ result.ready
    /\ result.attrs.Group = GroupName
    /\ result.attrs.Subresource # "status"
    /\ ManagedRequest(result.attrs)

\* C1: with the gate ready, a non-status update of a ServiceInstance or a
\* ServiceInstanceCredential of the service-catalog group whose object has
\* Status.ReconciledGeneration # Generation is answered with Conflict (409).
GenerationMismatchIsConflict ==
    ( /\ DecidedManagedUpdate
      /\ result.attrs.Object.Status.ReconciledGeneration # result.attrs.Object.Generation )
    => /\ result.decision.kind = "Conflict"
       /\ result.decision.code = 409

\* C1 happens: an instance that is not being deleted, with Generation ahead of
\* ReconciledGeneration, was rejected with Conflict.
GenerationMismatchRejected ==
    /\ DecidedManagedUpdate
    /\ result.attrs.Object.kind = "ServiceInstance"
    /\ result.attrs.Object.DeletionTimestamp = Nil
    /\ result.attrs.Object.Generation > result.attrs.Object.Status.ReconciledGeneration
    /\ result.decision = PendingChange

\* C6: with the gate ready, an update of the status subresource of a
\* ServiceInstance or ServiceInstanceCredential is allowed, also when the object's
\* Generation differs from ReconciledGeneration or its DeletionTimestamp is set.
StatusUpdateOfManagedResourceAllowed ==
    ( /\ result.op = "Admit"
      /\ result.ready
      /\ result.attrs.Group = GroupName
      /\ result.attrs.Subresource = "status"
      /\ ManagedRequest(result.attrs) )
    => result.decision = Allow

\* C6 happens: a status update of an instance that is being deleted and whose
\* generations differ was allowed.
PendingStatusUpdateAllowed ==
    /\ result.op = "Admit"
    /\ result.ready
    /\ result.attrs.Group = GroupName
    /\ result.attrs.Subresource = "status"
    /\ result.attrs.Resource = "serviceinstances"
    /\ result.attrs.Object.kind = "ServiceInstance"
    /\ result.attrs.Object.DeletionTimestamp # Nil
    /\ result.attrs.Object.Status.ReconciledGeneration # result.attrs.Object.Generation
    /\ result.decision = Allow

\* C7 as stated: every request on the status subresource is allowed, whatever
\* the readiness of the gate.
StatusRequestAllowedWhateverReadiness ==
    ( /\ result.op = "Admit"
      /\ result.attrs.Subresource = "status" )
    => result.decision = Allow

\* C7 as amended: once the gate is ready, every request on the status
\* subresource is allowed, whatever its group, its resource and its object.
StatusRequestAllowedWhenReady ==
    ( /\ result.op = "Admit"
      /\ result.ready
      /\ result.attrs.Subresource = "status" )
    => result.decision = Allow

\* C7 happens: a status request of the service-catalog group whose object is not
\* of the kind its resource names was allowed.
UnconvertibleStatusRequestAllowed ==
    /\ result.op = "Admit"
    /\ result.ready
    /\ result.attrs.Group = GroupName
    /\ result.attrs.Subresource = "status"
    /\ result.attrs.Resource = "serviceinstances"
    /\ result.attrs.Object.kind # "ServiceInstance"
    /\ result.decision = Allow

\* C8: while the ready function reports false, every request is answered with
\* Forbidden "not yet ready", whatever its group, resource, subresource and object.
NotReadyIsForbidden ==
    ( /\ result.op = "Admit"
      /\ ~result.ready )
    => /\ result.decision.kind = "Forbidden"
       /\ result.decision.code = 403
       /\ result.decision.detail = "not yet ready to handle request"

\* C8 happens: before the credential informer synced, a status request of another
\* group carrying an unmanaged object was answered with Forbidden.
ForeignStatusRequestForbidden ==
    /\ result.op = "Admit"
    /\ ~result.ready
    /\ instanceSynced
    /\ result.attrs.Group # GroupName
    /\ result.attrs.Subresource = "status"
    /\ result.attrs.Object = OtherObject
    /\ result.decision = NotReady

\* C9 as stated: with the gate ready, a non-status update of a ServiceInstance or
\* a ServiceInstanceCredential whose DeletionTimestamp is set is answered with
\* Conflict.
DeletionIsConflictForBothKinds ==
    ( /\ DecidedManagedUpdate
      /\ result.attrs.Object.DeletionTimestamp # Nil )
    => result.decision.kind = "Conflict"

\* C9 as amended: with the gate ready, a non-status update of a ServiceInstance
\* whose DeletionTimestamp is set is answered with Conflict, also when Generation
\* equals ReconciledGeneration; a ServiceInstanceCredential is answered with
\* Conflict exactly when its generations differ, its DeletionTimestamp not counting.
DeletionIsConflictForInstances ==
    DecidedManagedUpdate =>
        /\ ( /\ result.attrs.Object.kind = "ServiceInstance"
             /\ result.attrs.Object.DeletionTimestamp # Nil )
           => /\ result.decision.kind = "Conflict"
              /\ result.decision.code = 409
        /\ result.attrs.Object.kind = "ServiceInstanceCredential"
           => ( result.decision.kind = "Conflict"
                <=> result.attrs.Object.Status.ReconciledGeneration
                        # result.attrs.Object.Generation )

\* C9 happens: an instance with equal generations that is being deleted was
\* rejected with Conflict.
ReconciledInstanceBeingDeletedRejected ==
    /\ DecidedManagedUpdate
    /\ result.attrs.Object.kind = "ServiceInstance"
    /\ result.attrs.Object.DeletionTimestamp # Nil
    /\ result.attrs.Object.Status.ReconciledGeneration = result.attrs.Object.Generation
    /\ result.decision = PendingChange

\* C10: readiness is one-way. Once both informers have synced the gate stays
\* ready and no Admit returns Forbidden "not yet ready"; before that no Admit
\* returns Allow.
ReadinessIsOneWay ==
    [][ /\ ReadyFunc => ReadyFunc'
        /\ ( result' # result /\ result'.op = "Admit" )
           => /\ ReadyFunc => result'.decision # NotReady
              /\ ~ReadyFunc => result'.decision # Allow ]_vars

\* C10 happens: with both informers synced, an update of a reconciled instance
\* that is not being deleted was allowed.
ReconciledInstanceUpdateAllowed ==
    /\ ReadyFunc
    /\ DecidedManagedUpdate
    /\ result.attrs.Object.kind = "ServiceInstance"
    /\ result.attrs.Object.DeletionTimestamp = Nil
    /\ result.attrs.Object.Status.ReconciledGeneration = result.attrs.Object.Generation
    /\ result.decision = Allow

----------------------------------------------------------------------------
\* Properties of the update validator, checked under SpecValidate.

AnotherOperationError == FieldError("Forbidden", << "Spec" >>, AnotherOperationInProgress)

\* C3: when old.Status.AsyncOpInProgress is true, ValidateServiceInstanceUpdate
\* returns the Forbidden error on Spec "Another operation for this service
\* instance is in progress", for every new object; it is the only error when the
\* new object is valid by itself.
AsyncOperationForbidsUpdate ==
    ( /\ result.op = "ValidateUpdate"
      /\ result.new.kind = "ServiceInstance"
      /\ result.old.Status.AsyncOpInProgress )
    => /\ \E i \in 1..Len(result.errs) : result.errs[i] = AnotherOperationError
       /\ ValidateServiceInstance(result.new) = <<>>
          => result.errs = << AnotherOperationError >>

\* C3 happens: an update that keeps the Spec of an old object with an
\* asynchronous operation in progress, to a new object valid by itself without
\* the flag, got that error alone.
AsyncOperationForbadeValidUpdate ==
    /\ result.op = "ValidateUpdate"
    /\ result.new.kind = "ServiceInstance"
    /\ result.old.Status.AsyncOpInProgress
    /\ ~result.new.Status.AsyncOpInProgress
    /\ result.new.Spec = result.old.Spec
    /\ ValidateServiceInstance(result.new) = <<>>
    /\ result.errs = << AnotherOperationError >>

----------------------------------------------------------------------------
\* Properties of the write path, checked under Spec.

\* C2: whenever the stored instance has a pending change, the gate (ready)
\* answers every non-status update of it with Conflict, whatever Generation and
\* Status the object of the request carries.
PendingStoredInstanceIsConflict ==
    ( /\ result.op = "Update"
      /\ result.ready
      /\ InstanceHasPendingChange(Deref(result.old)) )
    => result.decision.kind = "Conflict"

\* The stored instance is converged and idle.
ConvergedIdle(instance) ==
    /\ instance.Generation = instance.Status.ReconciledGeneration
    /\ instance.Status.CurrentOperation = ""
    /\ ~instance.Status.AsyncOpInProgress
    /\ instance.DeletionTimestamp = Nil

\* The request is the stored instance with another, well-formed plan name and
\* no other change.
ChangesOnlyPlanName(req, old) ==
    /\ req.Spec.PlanName # old.Spec.PlanName
    /\ req.Spec.PlanName \in WellFormedNames
    /\ req = [ old EXCEPT !.Spec.PlanName = req.Spec.PlanName ]

StoredInstanceInvariants ==
    stored # Nil =>
        LET instance == Deref(stored)
            status   == instance.Status
        IN  /\ instance.Generation = status.ReconciledGeneration
               => status.CurrentOperation = ""
            /\ status.CurrentOperation # "" <=> status.OperationStartTime # Nil
            /\ status.CurrentOperation # ""
               => \A i \in 1..Len(status.Conditions) :
                      ~( /\ status.Conditions[i].Type = ConditionReady
                         /\ status.Conditions[i].Status = "True" )
            /\ status.CurrentOperation \in { OperationProvision, OperationUpdate }
               <=> status.InProgressProperties # Nil

\* C5 happens: a status update that starts an Update operation on an idle
\* instance was accepted, and the instance is stored at Generation 2 with it.
OperationStartedOnChangedInstance ==
    /\ result.op = "UpdateStatus"
    /\ result.accepted
    /\ stored # Nil
    /\ Deref(stored).Generation = 2
    /\ Deref(stored).Status.CurrentOperation = OperationUpdate
    /\ Deref(stored).Status.InProgressProperties # Nil
    /\ Deref(result.old).Status.CurrentOperation = ""

----------------------------------------------------------------------------
\* Properties of the preparation steps, checked under SpecPrepare.

\* Some condition of the list is of type Ready with the given status.
HasReadyWithStatus(conditions, status) ==
    \E i \in 1..Len(conditions) :
        /\ conditions[i].Type = ConditionReady
        /\ conditions[i].Status = status

\* C13: PrepareForUpdate with a changed Spec sets new.Generation to
\* old.Generation + 1, whatever Generation the caller supplied, and leaves in
\* new.Status.Conditions a Ready condition with status False and reason
\* UpdateInitiated.
ChangedSpecBumpsGeneration ==
    ( /\ result.op = "PrepareForUpdate"
      /\ result.new.Spec # result.old.Spec )
    => /\ result.prepared.new.Generation = result.old.Generation + 1
       /\ \E i \in 1..Len(result.prepared.new.Status.Conditions) :
              LET c == result.prepared.new.Status.Conditions[i]
              IN  /\ c.Type = ConditionReady
                  /\ c.Status = "False"
                  /\ c.Reason = "UpdateInitiated"

\* C13 happens: a changed Spec submitted with a Generation other than the old
\* one, over an old object whose Ready condition was True.
ChangedSpecBumpedGeneration ==
    /\ result.op = "PrepareForUpdate"
    /\ result.new.Spec # result.old.Spec
    /\ result.new.Generation # result.old.Generation
    /\ result.old.Status.Conditions = << ReadyCondition("True") >>
    /\ result.prepared.new.Generation = result.old.Generation + 1
    /\ HasReadyWithStatus(result.prepared.new.Status.Conditions, "False")

\* C14: PrepareForUpdate with an unchanged Spec yields new.Generation equal to
\* old.Generation, for every Generation the submitted object carries, and leaves
\* every condition as in old.Status.
UnchangedSpecKeepsOldGeneration ==
    ( /\ result.op = "PrepareForUpdate"
      /\ result.new.Spec = result.old.Spec )
    => /\ result.prepared.new.Generation = result.old.Generation
       /\ result.prepared.new.Status.Conditions = result.old.Status.Conditions

\* The conditions of a list that are not of type Ready, in their order.
ConditionsOtherThanReady(conditions) ==
    SelectSeq(conditions, LAMBDA c : c.Type # ConditionReady)

\* C15: after PrepareForUpdate every field of new.Status equals the field of
\* old.Status, and so does every condition other than Ready, whatever Status
\* the caller submitted.
StatusComesFromOld ==
    result.op = "PrepareForUpdate" =>
        LET new == result.prepared.new.Status
            old == result.old.Status
        IN  /\ new.ReconciledGeneration = old.ReconciledGeneration
            /\ new.CurrentOperation = old.CurrentOperation
            /\ new.OperationStartTime = old.OperationStartTime
            /\ new.AsyncOpInProgress = old.AsyncOpInProgress
            /\ new.InProgressProperties = old.InProgressProperties
            /\ new.ExternalProperties = old.ExternalProperties
            /\ new.LastOperation = old.LastOperation
            /\ ConditionsOtherThanReady(new.Conditions)
                   = ConditionsOtherThanReady(old.Conditions)

\* C15 happens: a changed Spec submitted with a Status of its own, over an old
\* object in an operation that has a condition other than Ready.
SubmittedStatusDiscarded ==
    /\ result.op = "PrepareForUpdate"
    /\ result.new.Spec # result.old.Spec
    /\ result.new.Status.CurrentOperation = OperationDeprovision
    /\ result.old.Status.CurrentOperation = OperationUpdate
    /\ result.old.Status.ExternalProperties # Nil
    /\ result.prepared.new.Status.CurrentOperation = OperationUpdate
    /\ ConditionsOtherThanReady(result.prepared.new.Status.Conditions) = << FailedCondition >>

\* C16: after PrepareForUpdate with a changed Spec, for every old object the
\* validator accepts, no Ready condition of new.Status.Conditions has status True.
ChangedSpecLeavesNoReadyTrue ==
    ( /\ result.op = "PrepareForUpdate"
      /\ result.new.Spec # result.old.Spec
      /\ ValidateServiceInstance(result.old) = <<>> )
    => ~HasReadyWithStatus(result.prepared.new.Status.Conditions, "True")

\* C17: PrepareForCreate yields the zero Status with no conditions, Generation 1
\* and the managing finalizer alone, whatever Status, Generation and Finalizers
\* were submitted; applied to its own result it changes nothing.
CreateResetsAndIsIdempotent ==
    result.op = "PrepareForCreate" =>
        /\ result.prepared.Status = ZeroInstanceStatus
        /\ result.prepared.Status.Conditions = <<>>
        /\ result.prepared.Generation = 1
        /\ result.prepared.Finalizers = << FinalizerServiceCatalog >>
        /\ PrepareForCreate(result.prepared, result.user, originatingIdentity)
               = result.prepared

\* C17 happens: an object submitted with a finalizer of its own, another
\* Generation and an operation in its Status was prepared, with the feature
\* gate on and a user in the context.
SubmittedStatusAndFinalizersReset ==
    /\ result.op = "PrepareForCreate"
    /\ originatingIdentity
    /\ result.user # Nil
    /\ result.new.Finalizers = << "other-finalizer" >>
    /\ result.new.Generation # 1
    /\ result.new.Status.CurrentOperation # ""
    /\ result.prepared.Finalizers = << FinalizerServiceCatalog >>
    /\ result.prepared.Spec.UserInfo # Nil

----------------------------------------------------------------------------
\* Further properties of the write path, checked under Spec.

\* C12: while the stored instance is as its creation left it (Generation 1,
\* zero Status, hence ReconciledGeneration 0, not being deleted), the gate
\* (ready) answers every non-status update of it with Conflict.
NewInstanceUpdateIsConflict ==
    ( /\ result.op = "Update"
      /\ result.ready
      /\ Deref(result.old).Generation = 1
      /\ Deref(result.old).Status = ZeroInstanceStatus
      /\ Deref(result.old).DeletionTimestamp = Nil )
    => result.decision.kind = "Conflict"

\* C18: an accepted update of either kind never stores a Generation below the
\* one it replaces, and an accepted status update stores the same Generation.
GenerationNeverDecreases ==
    ( /\ result.op \in { "Update", "UpdateStatus" }
      /\ result.accepted )
    => /\ Deref(stored).Generation >= Deref(result.old).Generation
       /\ result.op = "UpdateStatus"
            => Deref(stored).Generation = Deref(result.old).Generation

----------------------------------------------------------------------------
\* Properties of the reconciler's finishing write, checked under SpecReconcile.

\* The stored instance has its generation reconciled and no operation.
Reconciled ==
    /\ stored # Nil
    /\ Deref(stored).Status.ReconciledGeneration = Deref(stored).Generation
    /\ Deref(stored).Status.CurrentOperation = ""

\* C11: whatever the stored instance, the finishing status update is allowed by
\* the gate once it is ready and accepted by the validator, and so, with the
\* reconciler weakly fair, a stored instance is eventually reconciled with no
\* current operation.
ReconcilerCanAlwaysFinish ==
    /\ []( ( /\ result.op = "FinishOperation"
             /\ result.ready )
           => /\ result.decision = Allow
              /\ result.errs = <<>>
              /\ result.accepted
              /\ Reconciled )
    /\ ( stored # Nil ~> Reconciled )

\* C11 happens: an instance being deleted, in an asynchronous deprovisioning
\* not yet reconciled, was finished.
AsyncDeprovisionFinished ==
    /\ result.op = "FinishOperation"
    /\ result.accepted
    /\ Deref(result.old).DeletionTimestamp # Nil
    /\ Deref(result.old).Status.CurrentOperation = OperationDeprovision
    /\ Deref(result.old).Status.AsyncOpInProgress
    /\ Deref(result.old).Status.ReconciledGeneration # Deref(result.old).Generation
    /\ Reconciled

----------------------------------------------------------------------------
\* Properties of the validators of both kinds, checked under SpecValidate.

\* Some error of the list has the given type and field.
HasError(errs, type, fld) ==
    \E i \in 1..Len(errs) : errs[i].type = type /\ errs[i].field = fld

\* A validator of either kind has answered, on whichever path.
Answered ==
    result.op \in { "Validate", "ValidateUpdate", "ValidateStatusUpdate" }

\* C19: on every path and for both kinds the validator raises a Forbidden
\* error on Status.currentOperation exactly when the object has
\* ReconciledGeneration equal to Generation and a current operation.
GenerationRuleEnforced ==
    Answered =>
        ( HasError(result.errs, "Forbidden", << "Status", "currentOperation" >>)
          <=> /\ result.new.Status.ReconciledGeneration = result.new.Generation
              /\ result.new.Status.CurrentOperation # "" )

\* C19 happens: a credential with equal generations and a Bind operation,
\* otherwise well formed, was rejected on the status path with that error alone.
ReconciledCredentialInOperationRejected ==
    /\ result.op = "ValidateStatusUpdate"
    /\ result.new.kind = "ServiceInstanceCredential"
    /\ result.new.Status.ReconciledGeneration = result.new.Generation
    /\ result.new.Status.CurrentOperation = OperationBind
    /\ Len(result.errs) = 1
    /\ result.errs[1].type = "Forbidden"
    /\ result.errs[1].field = << "Status", "currentOperation" >>

\* C20: for both kinds the validator raises Forbidden on
\* Status.operationStartTime exactly when there is no current operation and a
\* start time, and Required exactly when there is an operation, of any name,
\* and no start time.
StartTimeRuleEnforced ==
    Answered =>
        /\ HasError(result.errs, "Forbidden", << "Status", "operationStartTime" >>)
           <=> /\ result.new.Status.CurrentOperation = ""
               /\ result.new.Status.OperationStartTime # Nil
        /\ HasError(result.errs, "Required", << "Status", "operationStartTime" >>)
           <=> /\ result.new.Status.CurrentOperation # ""
               /\ result.new.Status.OperationStartTime = Nil

\* C20 happens: an instance with an operation the validator does not know and
\* no start time got the Required error on the update path.
UnknownOperationWithoutStartTimeRejected ==
    /\ result.op = "ValidateUpdate"
    /\ result.new.kind = "ServiceInstance"
    /\ result.new.Status.CurrentOperation = "bad-operation"
    /\ result.new.Status.OperationStartTime = Nil
    /\ HasError(result.errs, "Required", << "Status", "operationStartTime" >>)
    /\ HasError(result.errs, "NotSupported", << "Status", "currentOperation" >>)

\* The error on the condition at position i (from 1) of the status.
ConditionForbidden(errs, i) ==
    HasError(errs, "Forbidden", << "Status", "Conditions", ToString(i - 1) >>)

\* C21: on every path and for both kinds the validator raises a Forbidden
\* error on a condition exactly when there is a current operation and that
\* condition has type Ready and status True.
ReadyTrueForbiddenDuringOperation ==
    Answered =>
        \A i \in 1..Len(result.new.Status.Conditions) :
            ConditionForbidden(result.errs, i)
            <=> /\ result.new.Status.CurrentOperation # ""
                /\ result.new.Status.Conditions[i].Type = ConditionReady
                /\ result.new.Status.Conditions[i].Status = "True"

\* C21 happens: a credential in a Bind operation with another condition that
\* is True before a Ready condition that is True got the error on the second
\* condition and not on the first.
ReadyTrueCredentialInOperationRejected ==
    /\ result.op = "ValidateUpdate"
    /\ result.new.kind = "ServiceInstanceCredential"
    /\ result.new.Status.CurrentOperation = OperationBind
    /\ Len(result.new.Status.Conditions) = 2
    /\ result.new.Status.Conditions[1].Type = ConditionFailed
    /\ result.new.Status.Conditions[1].Status = "True"
    /\ ConditionForbidden(result.errs, 2)
    /\ ~ConditionForbidden(result.errs, 1)

\* A validator of instances, or of credentials, has answered.
AnsweredInstance == Answered /\ result.new.kind = "ServiceInstance"
AnsweredCredential == Answered /\ result.new.kind = "ServiceInstanceCredential"

\* C22: for instances the validator raises Required on
\* Status.inProgressProperties exactly when the operation is Provision or
\* Update and the properties are absent, and Forbidden exactly when the
\* operation is anything else and the properties are present.
InstanceInProgressPropertiesRule ==
    AnsweredInstance =>
        /\ HasError(result.errs, "Required", << "Status", "inProgressProperties" >>)
           <=> /\ result.new.Status.CurrentOperation \in { OperationProvision, OperationUpdate }
               /\ result.new.Status.InProgressProperties = Nil
        /\ HasError(result.errs, "Forbidden", << "Status", "inProgressProperties" >>)
           <=> /\ result.new.Status.CurrentOperation \notin { OperationProvision, OperationUpdate }
               /\ result.new.Status.InProgressProperties # Nil

\* C22 happens: a deprovisioning instance with in-progress properties got the
\* Forbidden error, and nothing else.
DeprovisionWithInProgressPropertiesForbidden ==
    /\ AnsweredInstance
    /\ result.new.Status.CurrentOperation = OperationDeprovision
    /\ result.new.Status.InProgressProperties # Nil
    /\ Len(result.errs) = 1
    /\ result.errs[1].type = "Forbidden"
    /\ result.errs[1].field = << "Status", "inProgressProperties" >>

\* C23: for credentials the validator raises Required on
\* Status.inProgressProperties exactly when the operation is Bind and the
\* properties are absent, and Forbidden exactly when the operation is anything
\* else and the properties are present.
CredentialInProgressPropertiesRule ==
    AnsweredCredential =>
        /\ HasError(result.errs, "Required", << "Status", "inProgressProperties" >>)
           <=> /\ result.new.Status.CurrentOperation = OperationBind
               /\ result.new.Status.InProgressProperties = Nil
        /\ HasError(result.errs, "Forbidden", << "Status", "inProgressProperties" >>)
           <=> /\ result.new.Status.CurrentOperation # OperationBind
               /\ result.new.Status.InProgressProperties # Nil

\* C23 happens: an unbinding credential with in-progress properties got the
\* Forbidden error, and a binding one without them the Required error.
UnbindWithInProgressPropertiesForbidden ==
    /\ AnsweredCredential
    /\ result.new.Status.CurrentOperation = OperationUnbind
    /\ result.new.Status.InProgressProperties # Nil
    /\ HasError(result.errs, "Forbidden", << "Status", "inProgressProperties" >>)
    /\ ~HasError(result.errs, "Required", << "Status", "inProgressProperties" >>)

\* The operations the validator of the object's kind knows.
LegalOperations(object) ==
    IF object.kind = "ServiceInstance"
    THEN { "", OperationProvision, OperationUpdate, OperationDeprovision }
    ELSE { "", OperationBind, OperationUnbind }

\* C25: the validator raises NotSupported on Status.currentOperation exactly
\* when the operation is outside the legal set of the kind, and then the
\* object is not accepted.
UnsupportedOperationRejected ==
    Answered =>
        /\ HasError(result.errs, "NotSupported", << "Status", "currentOperation" >>)
           <=> result.new.Status.CurrentOperation \notin LegalOperations(result.new)
        /\ result.new.Status.CurrentOperation \notin LegalOperations(result.new)
           => result.errs # <<>>

\* C25 happens: a credential whose only fault is an unknown operation was
\* rejected with the NotSupported error alone.
UnknownCredentialOperationRejected ==
    /\ AnsweredCredential
    /\ result.new.Status.CurrentOperation = "bad-operation"
    /\ result.errs = << FieldError("NotSupported", << "Status", "currentOperation" >>,
                                   "supported values") >>

\* C26: for instances with no current operation the validator raises Forbidden
\* on Status.asyncOpInProgress exactly when the flag is true and Forbidden on
\* Status.lastOperation exactly when a last operation is present; with a
\* current operation it raises neither.
NoOperationExcludesAsyncAndLastOperation ==
    AnsweredInstance =>
        /\ HasError(result.errs, "Forbidden", << "Status", "asyncOpInProgress" >>)
           <=> /\ result.new.Status.CurrentOperation = ""
               /\ result.new.Status.AsyncOpInProgress
        /\ HasError(result.errs, "Forbidden", << "Status", "lastOperation" >>)
           <=> /\ result.new.Status.CurrentOperation = ""
               /\ result.new.Status.LastOperation # Nil

\* C26 happens: an idle instance with a last operation and the flag off got
\* the error on the last operation alone.
IdleWithLastOperationForbidden ==
    /\ AnsweredInstance
    /\ result.new.Status.CurrentOperation = ""
    /\ result.new.Status.LastOperation # Nil
    /\ ~result.new.Status.AsyncOpInProgress
    /\ HasError(result.errs, "Forbidden", << "Status", "lastOperation" >>)
    /\ ~HasError(result.errs, "Forbidden", << "Status", "asyncOpInProgress" >>)

\* C27: the status-update validator of instances returns exactly the errors of
\* ValidateServiceInstance on the new object, whatever the old one; so a valid
\* new object is accepted with a reconciled generation above its generation.
StatusUpdateAddsNoTransitionRule ==
    ( /\ result.op = "ValidateStatusUpdate"
      /\ result.new.kind = "ServiceInstance" )
    => /\ result.errs = ValidateServiceInstance(result.new)
       /\ ( /\ ValidateServiceInstance(result.new) = <<>>
            /\ result.new.Status.ReconciledGeneration > result.new.Generation )
          => result.errs = <<>>

\* C27 happens: a status write was accepted while the old object had an
\* asynchronous operation in progress, with a reconciled generation below the
\* old one's.
BackwardStatusWriteDuringAsyncAccepted ==
    /\ result.op = "ValidateStatusUpdate"
    /\ result.new.kind = "ServiceInstance"
    /\ result.old.Status.AsyncOpInProgress
    /\ result.new.Status.ReconciledGeneration < result.old.Status.ReconciledGeneration
    /\ result.errs = <<>>

----------------------------------------------------------------------------
\* A further property of the admission plug-in, checked under SpecGate.

\* C28: with the gate ready, a request for a resource outside the
\* service-catalog group, or inside it and not one of the two managed resources,
\* is allowed whatever its object.
UnmanagedResourceAllowed ==
    ( /\ result.op = "Admit"
      /\ result.ready
      /\ \/ result.attrs.Group # GroupName
         \/ result.attrs.Resource \notin { "serviceinstances", "serviceinstancecredentials" } )
    => result.decision = Allow

\* C28 happens: a non-status update of the resource serviceinstances of another
\* group, carrying an instance that is being deleted and is not reconciled, was
\* allowed.
OtherGroupPendingInstanceAllowed ==
    /\ result.op = "Admit"
    /\ result.ready
    /\ result.attrs.Group # GroupName
    /\ result.attrs.Resource = "serviceinstances"
    /\ result.attrs.Subresource = ""
    /\ result.attrs.Object.kind = "ServiceInstance"
    /\ result.attrs.Object.DeletionTimestamp # Nil
    /\ result.attrs.Object.Status.ReconciledGeneration # result.attrs.Object.Generation
    /\ result.decision = Allow

----------------------------------------------------------------------------
\* Properties of the validation of properties states, checked under SpecProperties.

\* A status validator has answered on the two properties states.
AnsweredProperties ==
    result.op \in { "validateServiceInstanceStatus", "validateServiceInstanceCredentialStatus" }

\* The errors raised on the fields below the properties state of that name.
SnapshotErrors(name) ==
    SelectSeq(result.errs,
              LAMBDA e : Len(e.field) > 2 /\ e.field[1] = "Status" /\ e.field[2] = name)

\* An error of that type on the checksum of the properties state of that name.
ChecksumError(type, name) ==
    HasError(result.errs, type, << "Status", name, "parametersChecksum" >>)

\* The checksum has exactly 64 characters, all hexadecimal digits.
WellFormedChecksum(checksum) ==
    /\ Len(checksum) = 64
    /\ \A i \in 1..Len(checksum) : checksum[i] \in HexDigits

\* The properties state has neither parameters nor checksum, or parameters that
\* are not empty and decode, and a well-formed checksum.
ValidSnapshot(ps) ==
    \/ /\ ps.Parameters = Nil
       /\ ps.ParametersChecksum = <<>>
    \/ /\ ps.Parameters # Nil
       /\ Deref(ps.Parameters).Raw # RawEmpty
       /\ YamlUnmarshalsToMap(Deref(ps.Parameters).Raw)
       /\ WellFormedChecksum(ps.ParametersChecksum)

\* What the validator owes a present properties state, by the checksums it
\* calls Invalid when there are parameters.
SnapshotRule(state, name, invalidChecksum) ==
    state # Nil =>
        /\ SnapshotErrors(name) = <<>> <=> ValidSnapshot(Deref(state))
        /\ ( /\ Deref(state).Parameters # Nil
             /\ invalidChecksum )
           => ChecksumError("Invalid", name)
        /\ ( /\ Deref(state).Parameters = Nil
             /\ Deref(state).ParametersChecksum # <<>> )
           => ChecksumError("Forbidden", name)

\* C24, as amended: for both kinds and for each of the two properties states by
\* itself, a present state raises no error exactly when it is valid; with
\* parameters, a checksum that is not empty and not well formed gives Invalid
\* and an empty one gives Forbidden and no Invalid; without parameters, a
\* checksum that is not empty gives Forbidden.
SnapshotValidity ==
    AnsweredProperties =>
        /\ SnapshotRule(result.inProgress, "inProgressProperties",
                        /\ Deref(result.inProgress).ParametersChecksum # <<>>
                        /\ ~WellFormedChecksum(Deref(result.inProgress).ParametersChecksum))
        /\ SnapshotRule(result.external, "externalProperties",
                        /\ Deref(result.external).ParametersChecksum # <<>>
                        /\ ~WellFormedChecksum(Deref(result.external).ParametersChecksum))
        /\ \A name \in { "inProgressProperties", "externalProperties" } :
             LET state == IF name = "inProgressProperties"
                          THEN result.inProgress ELSE result.external
             IN  ( /\ state # Nil
                   /\ Deref(state).Parameters # Nil
                   /\ Deref(state).ParametersChecksum = <<>> )
                 => /\ ChecksumError("Forbidden", name)
                    /\ ~ChecksumError("Invalid", name)

\* C24, as stated: the same, with every checksum of a length other than 64 or
\* with a character that is no hexadecimal digit given Invalid when there are
\* parameters, the empty checksum included.
SnapshotValidityAsStated ==
    AnsweredProperties =>
        /\ SnapshotRule(result.inProgress, "inProgressProperties",
                        ~WellFormedChecksum(Deref(result.inProgress).ParametersChecksum))
        /\ SnapshotRule(result.external, "externalProperties",
                        ~WellFormedChecksum(Deref(result.external).ParametersChecksum))

\* C24 happens: a credential whose external properties have parameters and a
\* checksum of 64 characters, one of them no hexadecimal digit, got Invalid on
\* that checksum, and no error on its valid in-progress properties.
NonHexadecimalChecksumInvalid ==
    /\ result.op = "validateServiceInstanceCredentialStatus"
    /\ result.external # Nil
    /\ Deref(result.external).Parameters = Some([ Raw |-> RawMap ])
    /\ Len(Deref(result.external).ParametersChecksum) = 64
    /\ ~WellFormedChecksum(Deref(result.external).ParametersChecksum)
    /\ ChecksumError("Invalid", "externalProperties")
    /\ result.inProgress # Nil
    /\ SnapshotErrors("inProgressProperties") = <<>>

----------------------------------------------------------------------------
\* Properties of the originating identity, checked under SpecPrepare.

\* The user info of the acting identity of a request context: none when the
\* context carries no user.
ActingUserInfo(user) ==
    IF user = Nil
    THEN Nil
    ELSE Some([ Username |-> Deref(user).Name, UID |-> Deref(user).UID,
                Groups |-> Deref(user).Groups, Extra |-> Deref(user).Extra ])

\* C29: CheckGracefulDelete answers false for every instance and identity, with
\* the identity capture on or off; with it on the object's Spec.UserInfo is
\* that of the acting identity, and no other field of the object is changed.
CheckGracefulDeleteOnlyStampsIdentity ==
    result.op = "CheckGracefulDelete" =>
        /\ ~result.checked.graceful
        /\ result.checked.object =
             [ result.old EXCEPT !.Spec.UserInfo =
                 IF originatingIdentity
                 THEN ActingUserInfo(result.user)
                 ELSE result.old.Spec.UserInfo ]

\* C29 happens: with the capture on, the deletion by Alice of an instance in an
\* operation that carried another user's info left Alice's in its place.
DeleteStampedOverEarlierIdentity ==
    /\ result.op = "CheckGracefulDelete"
    /\ originatingIdentity
    /\ result.user = Some(Alice)
    /\ result.old.Spec.UserInfo = SuppliedUserInfo
    /\ result.old.Status.CurrentOperation # ""
    /\ result.checked.object.Spec.UserInfo = ActingUserInfo(Some(Alice))
    /\ result.checked.object.Status = result.old.Status
    /\ ~result.checked.graceful

\* C30: with the identity capture on, after PrepareForCreate, and after a
\* PrepareForUpdate whose Spec differs from the old one, Spec.UserInfo is that
\* of the acting identity, or absent when the context carries no user; and
\* PrepareForCreate gives the same Spec.UserInfo whatever user info the caller
\* supplied.
IdentityIsNotCallerSupplied ==
    originatingIdentity =>
        /\ result.op = "PrepareForCreate"
             => /\ result.prepared.Spec.UserInfo = ActingUserInfo(result.user)
                /\ \A u \in { Nil, SuppliedUserInfo } :
                     PrepareForCreate([ result.new EXCEPT !.Spec.UserInfo = u ],
                                      result.user, originatingIdentity).Spec.UserInfo
                       = result.prepared.Spec.UserInfo
        /\ ( /\ result.op = "PrepareForUpdate"
             /\ result.new.Spec # result.old.Spec )
             => result.prepared.new.Spec.UserInfo = ActingUserInfo(result.user)

\* C30 happens: with the capture on, an update by Alice that changes nothing
\* of the Spec but the user info, set to another user's, was stamped with
\* Alice's identity.
SuppliedIdentityOverwritten ==
    /\ result.op = "PrepareForUpdate"
    /\ originatingIdentity
    /\ result.user = Some(Alice)
    /\ result.new.Spec.UserInfo = SuppliedUserInfo
    /\ result.old.Spec.UserInfo = Nil
    /\ result.new.Spec.PlanName = result.old.Spec.PlanName
    /\ result.prepared.new.Spec.UserInfo = ActingUserInfo(Some(Alice))

----------------------------------------------------------------------------
\* Properties of the operations on objects of another kind, checked under
\* SpecMisroute.

\* The operation reads old as well as new.
ReadsOld(operation) ==
    operation \in { "PrepareForUpdate", "ValidateUpdate",
                    "StatusPrepareForUpdate", "StatusValidateUpdate" }

\* C31: an object of another kind than expected makes Admit (ready, non-status
\* request on a managed resource) answer BadRequest, and makes every operation
\* of the strategies end in a fault and not return.
TypeMismatchIsBadRequestOrFatal ==
    /\ ( /\ result.op = "Admit"
         /\ result.ready
         /\ ~ManagedRequest(result.attrs) )
       => result.decision.kind = "BadRequest"
    /\ ( /\ result.op \in StrategyOperations
         /\ \/ result.new.kind # "ServiceInstance"
            \/ ReadsOld(result.op) /\ result.old.kind # "ServiceInstance" )
       => result.end.kind \in { "fatal", "panic" }

----------------------------------------------------------------------------
\* Further properties of the admission plug-in, checked under SpecGate.

\* C32: with the gate ready, a non-status update of a ServiceInstanceCredential
\* is answered with Conflict exactly when its Generation differs from
\* Status.ReconciledGeneration, and is allowed otherwise, with or without a
\* DeletionTimestamp.
CredentialPendingByGenerationOnly ==
    ( /\ DecidedManagedUpdate
      /\ result.attrs.Object.kind = "ServiceInstanceCredential" )
    => result.decision =
         IF result.attrs.Object.Status.ReconciledGeneration # result.attrs.Object.Generation
         THEN PendingChange
         ELSE Allow

\* C32 happens: a credential that is being deleted and whose generations are
\* equal was allowed.
ReconciledCredentialBeingDeletedAllowed ==
    /\ DecidedManagedUpdate
    /\ result.attrs.Object.kind = "ServiceInstanceCredential"
    /\ result.attrs.Object.DeletionTimestamp # Nil
    /\ result.attrs.Object.Status.ReconciledGeneration = result.attrs.Object.Generation
    /\ result.decision = Allow

----------------------------------------------------------------------------
\* Further properties of the strategies' preparation, checked under SpecPrepare.

\* C33: the status strategy's PrepareForUpdate gives the submitted object with
\* the old object's Spec: Status, Generation and metadata stay as submitted,
\* and nothing of the submitted Spec is left.
StatusPathResetsSpecOnly ==
    result.op = "StatusPrepareForUpdate" =>
        /\ result.prepared.Spec = result.old.Spec
        /\ result.prepared = [ result.new EXCEPT !.Spec = result.old.Spec ]

\* C33 happens: a status write that submitted another plan, another user
\* info, another generation and another status kept the old Spec and the
\* submitted generation and status.
SubmittedSpecDiscardedOnStatusPath ==
    /\ result.op = "StatusPrepareForUpdate"
    /\ result.new.Spec.PlanName # result.old.Spec.PlanName
    /\ result.new.Spec.UserInfo # result.old.Spec.UserInfo
    /\ result.new.Generation # result.old.Generation
    /\ result.new.Status # result.old.Status
    /\ result.new.Finalizers # result.old.Finalizers
    /\ result.prepared.Spec = result.old.Spec
    /\ result.prepared.Generation = result.new.Generation
    /\ result.prepared.Status = result.new.Status
    /\ result.prepared.Finalizers = result.new.Finalizers

\* The Ready=False condition of an update, with the given time.
UpdateInitiated(time) ==
    [ Type |-> ConditionReady, Status |-> "False", Reason |-> "UpdateInitiated",
      Message |-> "Update initiated on ServiceInstance", LastTransitionTime |-> time ]

\* What the upsert owes: with no Ready condition the new one is appended with
\* the current time; otherwise it takes the place of the first Ready condition,
\* with that condition's time if its status was False and the current time if
\* not; every other condition is as it was.
Upserted(before, after, now) ==
    IF \A i \in 1..Len(before) : before[i].Type # ConditionReady
    THEN after = Append(before, UpdateInitiated(now))
    ELSE \E i \in 1..Len(before) :
            /\ before[i].Type = ConditionReady
            /\ \A j \in 1..(i - 1) : before[j].Type # ConditionReady
            /\ Len(after) = Len(before)
            /\ after[i] = UpdateInitiated(IF before[i].Status = "False"
                                          THEN before[i].LastTransitionTime
                                          ELSE now)
            /\ \A j \in 1..Len(before) : j # i => after[j] = before[j]

\* C34: a PrepareForUpdate with a changed Spec upserts the Ready=False
\* condition: in place and with the old time when the Ready condition was False
\* already, in place with the current time when it had another status,
\* appended with the current time when there was none; the other conditions
\* keep their values and order.
ReadyFalseUpsert ==
    ( /\ result.op = "PrepareForUpdate"
      /\ result.new.Spec # result.old.Spec )
    => Upserted(result.old.Status.Conditions,
                result.prepared.new.Status.Conditions, result.now)

\* C34 happens: the old object had another condition and then Ready False set
\* at time 1; the update at time 2 left both where they were, the Ready
\* condition with time 1 and the reason of the update.
ReadyFalseKeptItsTimeAndPlace ==
    /\ result.op = "PrepareForUpdate"
    /\ result.new.Spec # result.old.Spec
    /\ result.now = 2
    /\ result.old.Status.Conditions = << FailedCondition, ReadyCondition("False") >>
    /\ result.prepared.new.Status.Conditions = << FailedCondition, UpdateInitiated(1) >>

\* C37: PrepareForUpdate leaves old as it was before the call, each of its
\* conditions included, also when the Spec changed and old had a Ready
\* condition.
PrepareForUpdateLeavesOld ==
    result.op = "PrepareForUpdate" => result.prepared.old = result.old

----------------------------------------------------------------------------
\* Properties of the gate within the write path, checked under Spec, where the
\* stored instance is what the informer's cache holds.

\* The decision the request alone calls for: a status request is allowed, an
\* instance that is being deleted or whose generations differ is a conflict.
DecisionOfRequest(op, req) ==
    IF op = "UpdateStatus"
    THEN Allow
    ELSE IF req.DeletionTimestamp # Nil \/ req.Status.ReconciledGeneration # req.Generation
    THEN PendingChange
    ELSE Allow

\* C36: once the gate is ready its decision on an update is the one the
\* request alone calls for, whatever instance is stored.
DecisionIsFunctionOfRequest ==
    ( /\ result.op \in { "Update", "UpdateStatus" }
      /\ result.ready )
    => result.decision = DecisionOfRequest(result.op, result.req)

\* C36 happens: two stored instances that differ in their reconciled
\* generation got the same decision; here the one whose stored generations
\* differ, on a request that carries equal generations, was allowed.
SameDecisionWhateverIsStored ==
    /\ result.op = "Update"
    /\ result.ready
    /\ Deref(result.old).Status.ReconciledGeneration # Deref(result.old).Generation
    /\ result.req.Status.ReconciledGeneration = result.req.Generation
    /\ result.req.DeletionTimestamp = Nil
    /\ result.decision = Allow

----------------------------------------------------------------------------
\* Properties of what the instance validators accept, checked under
\* SpecValidate.

\* The instance has work under way: the asynchronous flag, a current operation
\* or in-progress properties.
WorkUnderWay(instance) ==
    \/ instance.Status.AsyncOpInProgress
    \/ instance.Status.CurrentOperation # ""
    \/ instance.Status.InProgressProperties # Nil

\* C38: an instance the validator accepts, on whichever path, that has
\* AsyncOpInProgress true, a current operation or in-progress properties has a
\* Generation different from its ReconciledGeneration.
AcceptedWorkIsUnreconciled ==
    ( /\ AnsweredInstance
      /\ result.errs = <<>>
      /\ WorkUnderWay(result.new) )
    => result.new.Generation # result.new.Status.ReconciledGeneration

\* C38 happens: the validator accepted an instance in an asynchronous
\* operation, whose generations differ.
AcceptedAsyncInstance ==
    /\ AnsweredInstance
    /\ result.errs = <<>>
    /\ result.new.Status.AsyncOpInProgress
    /\ result.new.Status.CurrentOperation # ""
    /\ result.new.Generation # result.new.Status.ReconciledGeneration

----------------------------------------------------------------------------
\* Properties of creation, checked under SpecPrepare.

\* C39: the object PrepareForCreate produces from an instance with a valid
\* name, namespace and Spec is accepted by ValidateServiceInstance with no
\* error, whatever Status, Generation and Finalizers were supplied.
CreateNeverRejectedForStatus ==
    ( /\ result.op = "PrepareForCreate"
      /\ ValidateObjectMeta(result.new) = <<>>
      /\ validateServiceInstanceSpec(result.new.Spec, << "Spec" >>) = <<>> )
    => ValidateServiceInstance(result.prepared) = <<>>

\* C39 happens: the caller supplied a Status in an operation, with a finalizer,
\* with which the instance as submitted is not valid, and the prepared one is.
InvalidSubmittedStatusAccepted ==
    /\ result.op = "PrepareForCreate"
    /\ result.new.Status.CurrentOperation # ""
    /\ result.new.Finalizers # <<>>
    /\ ValidateServiceInstance(result.new) # <<>>
    /\ ValidateServiceInstance(result.prepared) = <<>>

----------------------------------------------------------------------------
\* Concurrent clients: two users and the reconciler read the instance and write
\* it back, each write carrying the resourceVersion of the copy it was made
\* from. AllowUnconditionalUpdate is false, so no write goes without one.

\* The storage's compare-and-swap: the write goes through if the version it
\* carries is the one stored.
VersionIsCurrent(version) == version = resourceVersion

\* What the reconciler may write over the copy it read: it starts an operation,
\* polls it or finishes it, and the ReconciledGeneration it writes is the one it
\* read or the Generation it read.
ReconcilerStatuses(read) ==
    UNION { { IdleStatus(rg, <<>>),
              IdleStatus(rg, << ReadyCondition("True") >>),
              OperationStatus(OperationProvision, rg, FALSE, Nil, <<>>),
              OperationStatus(OperationUpdate, rg, TRUE, Some("polling"), <<>>) }
          : rg \in { read.Status.ReconciledGeneration, read.Generation } }

\* The instance exists as PrepareForCreate leaves it, with Generation 1 and
\* nothing reconciled; the informers have synced, nobody has read it yet.
InitConcurrent ==
    /\ instanceSynced = TRUE
    /\ credentialSynced = TRUE
    /\ originatingIdentity = FALSE
    /\ stored = Some(PrepareForCreate(TestInstance, Nil, FALSE))
    /\ result = NoResult
    /\ resourceVersion = 1
    /\ held = [ c \in Users \cup { Reconciler } |-> Nil ]

\* A client reads the instance.
Get(c) ==
    /\ held' = [ held EXCEPT ![c] = Some([ object          |-> Deref(stored),
                                           resourceVersion |-> resourceVersion ]) ]
    /\ result' = [ op |-> "Get", client |-> c ]
    /\ UNCHANGED <<instanceSynced, credentialSynced, originatingIdentity, stored,
                   resourceVersion>>

\* A user writes the copy they read back with plan `p`: the plug-in decides on
\* the request, the storage compares the versions, the strategy prepares and
\* validates against the stored object.
UpdateSpec(c, p, now) ==
    /\ held[c] # Nil
    /\ LET read     == Deref(held[c])
           req      == [ read.object EXCEPT !.Spec.PlanName = p ]
           old      == Deref(stored)
           decision == Admit(Attributes(GroupName, "serviceinstances", "", req), ReadyFunc)
           current  == VersionIsCurrent(read.resourceVersion)
           prepared == PrepareForUpdate(req, old, Some(Alice), originatingIdentity, now)
           errs     == ValidateServiceInstanceUpdate(prepared.new, prepared.old)
           accepted == decision = Allow /\ current /\ errs = <<>>
       IN  /\ accepted => resourceVersion < MaxResourceVersion
           /\ accepted /\ req.Spec # old.Spec => old.Generation < MaxGen
           /\ stored' = IF accepted THEN Some(prepared.new) ELSE stored
           /\ resourceVersion' = IF accepted THEN resourceVersion + 1 ELSE resourceVersion
           /\ result' = [ op |-> "UpdateSpec", client |-> c, req |-> req,
                          decision |-> decision, current |-> current,
                          accepted |-> accepted ]
    /\ held' = [ held EXCEPT ![c] = Nil ]
    /\ UNCHANGED <<instanceSynced, credentialSynced, originatingIdentity>>

\* The reconciler writes status `s` over the copy it read, on the status
\* subresource.
UpdateStatus(s) ==
    /\ held[Reconciler] # Nil
    /\ LET read     == Deref(held[Reconciler])
           req      == [ read.object EXCEPT !.Status = s ]
           old      == Deref(stored)
           decision == Admit(Attributes(GroupName, "serviceinstances", "status", req), ReadyFunc)
           current  == VersionIsCurrent(read.resourceVersion)
           new      == StatusPrepareForUpdate(req, old)
           errs     == ValidateServiceInstanceStatusUpdate(new, old)
           accepted == decision = Allow /\ current /\ errs = <<>>
       IN  /\ accepted => resourceVersion < MaxResourceVersion
           /\ stored' = IF accepted THEN Some(new) ELSE stored
           /\ resourceVersion' = IF accepted THEN resourceVersion + 1 ELSE resourceVersion
           /\ result' = [ op |-> "UpdateStatus", client |-> Reconciler, req |-> req,
                          decision |-> decision, current |-> current,
                          accepted |-> accepted ]
    /\ held' = [ held EXCEPT ![Reconciler] = Nil ]
    /\ UNCHANGED <<instanceSynced, credentialSynced, originatingIdentity>>

NextConcurrent ==
    \/ \E c \in Users \cup { Reconciler } : Get(c)
    \/ \E c \in Users, p \in { "test-plan", "test-plan-2" }, now \in Times : UpdateSpec(c, p, now)
    \/ /\ held[Reconciler] # Nil
       /\ \E s \in ReconcilerStatuses(Deref(held[Reconciler]).object) : UpdateStatus(s)

SpecConcurrent == InitConcurrent /\ [][NextConcurrent]_vars

\* C35: under every interleaving of users' spec updates and the reconciler's
\* status updates, the stored instance has Generation <= ReconciledGeneration + 1.
AtMostOneUnreconciledChange ==
    stored # Nil =>
        Deref(stored).Generation <= Deref(stored).Status.ReconciledGeneration + 1

\* C35 happens: two users raced from copies with equal generations; one write
\* went through, the other was allowed by the plug-in and lost on the version,
\* and one spec change is outstanding.
RacingWriteLostOnVersion ==
    /\ result.op = "UpdateSpec"
    /\ result.decision = Allow
    /\ ~result.current
    /\ ~result.accepted
    /\ result.req.Spec # Deref(stored).Spec
    /\ Deref(stored).Generation = Deref(stored).Status.ReconciledGeneration + 1
    /\ Deref(stored).Generation = MaxGen

====
